---- MODULE Spec2Model ----
(***************************************************************************)
(* Restaurant management backend (src/resturant/server.js): the Express   *)
(* handlers over the five Mongoose collections, as a state machine.       *)
(*                                                                         *)
(* A collection is a sequence: a document's _id is its index, and a       *)
(* deleted document leaves a tombstone (live = FALSE) so that an _id is   *)
(* never handed out twice.  Every handler is one action; `last` is the    *)
(* HTTP response of the handler that ran last.                             *)
(***************************************************************************)
EXTENDS Integers, Sequences, FiniteSets, TLC

VARIABLES tables, reservations, menuItems, inventory, orders, last, inflight

vars == <<tables, reservations, menuItems, inventory, orders, last, inflight>>

(***************************************************************************)
(* Bounds of the model.                                                    *)
(***************************************************************************)
MaxTables == 2
MaxReservations == 2
MaxClients == 2
MaxMenuItems == 2
MaxInventory == 2
MaxOrders == 1
MaxLines == 2
MaxQuantity == 2

NoId == 0

(***************************************************************************)
(* Request inputs.                                                         *)
(***************************************************************************)
TableIdInputs == 1..MaxTables
ReservationIdInputs == 1..MaxReservations
CapacityInputs == {0, 2, 4}
BooleanInputs == {"undefined", "true", "false"}
\* <<date, time>> of a reservation request
SlotInputs ==
    { <<"2025-06-01", "18:00">>, <<"2025-06-01T00:00:00.000Z", "18:00">>,
      <<"2025-06-02", "20:00">>, <<"soon", "18:00">> }
GuestInputs == {-1, 0, 2, 3, 5}
MenuItemIdInputs == 1..MaxMenuItems
InventoryIdInputs == 1..MaxInventory
OrderIdInputs == 1..MaxOrders
ItemNameInputs == {"Soup", "Tea"}
\* names as a client can spell them, one with a leading blank
NameInputs == {"Soup", "Tea", " Soup"}
TableNumberInputs == {<< >>, <<0>>, <<1>>, <<2>>}
\* an optional field of a request body: << >> when absent, <<v>> when given
PriceInputs == {<< >>, <<0>>, <<2>>, <<3>>}
StockInputs == {<< >>, <<-2>>, <<0>>, <<1>>, <<2>>}
LineQuantityInputs == {0, 1, 2}
OrderStatusInputs == {"", "pending", "preparing", "completed", "cancelled", "served"}
\* Date.now() when a handler reads the clock
ClockInputs == {1}
\* two readings of the clock, an earlier and a later one
ClockReadings == {1, 2}
ReservationStatusInputs == {"", "pending", "confirmed", "cancelled", "completed", "seated"}

(***************************************************************************)
(* Schemas.                                                                *)
(***************************************************************************)
ReservationStatusEnum == {"pending", "confirmed", "cancelled", "completed"}

DeletedTable == [live |-> FALSE, tableNumber |-> 0, capacity |-> 0, isAvailable |-> FALSE]

\* an enumeration that has no cancelled status
OrderStatusEnum_WithoutCancelled == {"pending", "preparing", "completed"}

OrderStatusEnum == {"pending", "preparing", "completed", "cancelled"}

DeletedMenuItem == [live |-> FALSE, name |-> "", price |-> 0, isAvailable |-> FALSE]

DeletedInventory ==
    [live |-> FALSE, itemName |-> "", quantity |-> 0, minStockLevel |-> 0]

DeletedOrder ==
    [live |-> FALSE, table |-> NoId, items |-> << >>, totalAmount |-> 0, status |-> "",
     completionTime |-> 0]

DeletedReservation == [live |-> FALSE, table |-> NoId, date |-> 0, time |-> "", status |-> ""]

\* new Date(date): a day number; both spellings of midnight UTC are one Date,
\* an unparseable string is the Invalid Date.
InvalidDate == -1

ParseDate(s) ==
    CASE s = "2025-06-01" -> 20250601
      [] s = "2025-06-01T00:00:00.000Z" -> 20250601
      [] s = "2025-06-02" -> 20250602
      [] OTHER -> InvalidDate

\* trim: true on MenuItemSchema.name and InventorySchema.itemName: the setter
\* that strips blanks, applied when a value is stored and when it is queried
Trim(name) == IF name = " Soup" THEN "Soup" ELSE name

(***************************************************************************)
(* Queries.                                                                *)
(***************************************************************************)
TableExists(id) == id \in 1..Len(tables) /\ tables[id].live

ReservationExists(id) == id \in 1..Len(reservations) /\ reservations[id].live

LiveTables == {t \in 1..Len(tables) : tables[t].live}

LiveReservations == {r \in 1..Len(reservations) : reservations[r].live}

Respond(op, code, msg) == last' = [op |-> op, code |-> code, msg |-> msg]

NoResponse == [op |-> "none", code |-> 0, msg |-> ""]

(***************************************************************************)
(* Table routes.                                                           *)
(***************************************************************************)
TableNumberTaken(n) == \E t \in LiveTables : tables[t].tableNumber = n

NewTable(tableNumber, capacity) ==
    [live |-> TRUE, tableNumber |-> tableNumber, capacity |-> capacity, isAvailable |-> TRUE]

\* POST /api/tables
CreateTable(tableNumber, capacity) ==
    /\ UNCHANGED <<reservations, menuItems, inventory, orders, inflight>>
    /\ IF TableNumberTaken(tableNumber)
       THEN /\ Respond("createTable", 400, "Table with this number already exists")
            /\ UNCHANGED tables
       ELSE IF tableNumber < 1 \/ capacity < 1
       THEN /\ Respond("createTable", 500, "Server Error")
            /\ UNCHANGED tables
       ELSE /\ Len(tables) < MaxTables
            /\ tables' = Append(tables, NewTable(tableNumber, capacity))
            /\ Respond("createTable", 201, "created")

TableNumberTakenByOther(n, id) ==
    \E t \in LiveTables : tables[t].tableNumber = n /\ t # id

\* lines 415-418: tableFields, the fields of the body that are set
TableFields(table, tableNumber, capacity, isAvailable) ==
    [table EXCEPT
       !.tableNumber = IF tableNumber # << >> /\ tableNumber[1] # 0 THEN tableNumber[1] ELSE @,
       !.capacity = IF capacity # << >> /\ capacity[1] # 0 THEN capacity[1] ELSE @,
       !.isAvailable = IF isAvailable # "undefined" THEN isAvailable = "true" ELSE @]

\* PUT /api/tables/:id; findByIdAndUpdate runs no validators
UpdateTable(id, tableNumber, capacity, isAvailable) ==
    /\ UNCHANGED <<reservations, menuItems, inventory, orders, inflight>>
    /\ IF ~TableExists(id)
       THEN /\ Respond("updateTable", 404, "Table not found")
            /\ UNCHANGED tables
       ELSE IF /\ tableNumber # << >>
               /\ tableNumber[1] # 0
               /\ tableNumber[1] # tables[id].tableNumber
               /\ TableNumberTakenByOther(tableNumber[1], id)
       THEN /\ Respond("updateTable", 400, "Table with this number already exists")
            /\ UNCHANGED tables
       ELSE /\ tables' = [tables EXCEPT
                             ![id] = TableFields(@, tableNumber, capacity, isAvailable)]
            /\ Respond("updateTable", 200, "ok")

\* PUT /api/tables/:id/availability
SetTableAvailability(id, isAvailable) ==
    /\ UNCHANGED <<reservations, menuItems, inventory, orders, inflight>>
    /\ IF isAvailable = "undefined"
       THEN /\ Respond("setTableAvailability", 400, "Please provide isAvailable status")
            /\ UNCHANGED tables
       ELSE IF ~TableExists(id)
       THEN /\ Respond("setTableAvailability", 404, "Table not found")
            /\ UNCHANGED tables
       ELSE /\ tables' = [tables EXCEPT ![id].isAvailable = (isAvailable = "true")]
            /\ Respond("setTableAvailability", 200, "ok")

\* DELETE /api/tables/:id
DeleteTable(id) ==
    /\ UNCHANGED <<reservations, menuItems, inventory, orders, inflight>>
    /\ IF ~TableExists(id)
       THEN /\ Respond("deleteTable", 404, "Table not found")
            /\ UNCHANGED tables
       ELSE /\ tables' = [tables EXCEPT ![id] = DeletedTable]
            /\ Respond("deleteTable", 200, "Table removed")

(***************************************************************************)
(* Reservation routes.                                                     *)
(***************************************************************************)
WellFormedReservationRequests ==
    { [customerName |-> "Ann", phoneNumber |-> "555", date |-> s[1], time |-> s[2],
       numberOfGuests |-> g, tableId |-> t] :
         s \in SlotInputs, g \in GuestInputs, t \in {NoId} \cup TableIdInputs }

ReservationRequests ==
    WellFormedReservationRequests \cup
    { [customerName |-> "", phoneNumber |-> "555", date |-> "2025-06-01", time |-> "18:00",
       numberOfGuests |-> 2, tableId |-> 1],
      [customerName |-> "Ann", phoneNumber |-> "", date |-> "2025-06-01", time |-> "18:00",
       numberOfGuests |-> 2, tableId |-> NoId],
      [customerName |-> "Ann", phoneNumber |-> "555", date |-> "", time |-> "18:00",
       numberOfGuests |-> 2, tableId |-> 1],
      [customerName |-> "Ann", phoneNumber |-> "555", date |-> "2025-06-01", time |-> "",
       numberOfGuests |-> 2, tableId |-> NoId] }

\* the required-field check of line 646
RequiredFieldsPresent(req) ==
    /\ req.customerName # ""
    /\ req.phoneNumber # ""
    /\ req.date # ""
    /\ req.time # ""
    /\ req.numberOfGuests # 0

ActiveStatuses == {"pending", "confirmed"}

\* the conflict query matching confirmed reservations only
ActiveReservationExists_ConfirmedOnly(t, d, tm) ==
    \E r \in LiveReservations :
        /\ reservations[r].table = t
        /\ reservations[r].date = d
        /\ reservations[r].time = tm
        /\ reservations[r].status = "confirmed"

\* Reservation.findOne({table, date, time, status: {$in: ['pending', 'confirmed']}})
ActiveReservationExists(t, d, tm) ==
    \E r \in LiveReservations :
        /\ reservations[r].table = t
        /\ reservations[r].date = d
        /\ reservations[r].time = tm
        /\ reservations[r].status \in ActiveStatuses

\* the query without its capacity filter
AvailableTables_AnyCapacity(numberOfGuests) ==
    {t \in LiveTables : tables[t].isAvailable}

\* Table.find({isAvailable: true, capacity: {$gte: numberOfGuests}})
AvailableTables(numberOfGuests) ==
    {t \in LiveTables : tables[t].isAvailable /\ tables[t].capacity >= numberOfGuests}

\* the scan without the sort by capacity
AutoAssignChoices_Unsorted(req) ==
    {t \in AvailableTables(req.numberOfGuests) :
        ~ActiveReservationExists(t, ParseDate(req.date), req.time)}

\* .sort({capacity: 1}) and the scan for the first table without an active
\* reservation: the tables the scan can stop at.  The order among tables of equal
\* capacity is the store's, so each of them can come first.
AutoAssignChoices(req) ==
    LET free == {t \in AvailableTables(req.numberOfGuests) :
                    ~ActiveReservationExists(t, ParseDate(req.date), req.time)}
    IN  {t \in free : \A u \in free : tables[t].capacity <= tables[u].capacity}

NewReservation(t, req) ==
    [live |-> TRUE, table |-> t, date |-> ParseDate(req.date), time |-> req.time,
     status |-> "pending"]

Response(code, msg) == [code |-> code, msg |-> msg]

\* new Reservation({...}).save(): the schema's validation (numberOfGuests min 1,
\* date a valid Date), then the insert and the 201
SaveReservationResponse(req) ==
    IF req.numberOfGuests < 1 \/ ParseDate(req.date) = InvalidDate
    THEN Response(500, "Server Error")
    ELSE Response(201, "created")

\* POST /api/reservations: the response, by the handler's checks in their order
ReservationResponse(req) ==
    IF ~RequiredFieldsPresent(req)
    THEN Response(400, "Please fill all required fields")
    ELSE IF req.tableId # NoId
    THEN IF ~TableExists(req.tableId)
         THEN Response(404, "Specified table not found")
         ELSE IF ~tables[req.tableId].isAvailable
         THEN Response(400, "Table is currently not available")
         ELSE IF tables[req.tableId].capacity < req.numberOfGuests
         THEN Response(400, "Table cannot accommodate guests")
         ELSE IF ParseDate(req.date) = InvalidDate
         THEN Response(500, "Server Error")
         ELSE IF ActiveReservationExists(req.tableId, ParseDate(req.date), req.time)
         THEN Response(400, "Table is already reserved")
         ELSE SaveReservationResponse(req)
    ELSE IF AvailableTables(req.numberOfGuests) = {}
         THEN Response(400, "No available tables found")
         ELSE IF ParseDate(req.date) = InvalidDate
         THEN Response(500, "Server Error")
         ELSE IF AutoAssignChoices(req) = {}
         THEN Response(400, "No suitable table found")
         ELSE SaveReservationResponse(req)

\* tableToReserve when the handler reaches the save
TablesToReserve(req) ==
    IF req.tableId # NoId THEN {req.tableId} ELSE AutoAssignChoices(req)

\* POST /api/reservations
CreateReservation(req) ==
    /\ UNCHANGED <<tables, menuItems, inventory, orders, inflight>>
    /\ LET resp == ReservationResponse(req)
       IN  /\ Respond("createReservation", resp.code, resp.msg)
           /\ IF resp.code = 201
              THEN /\ Len(reservations) < MaxReservations
                   /\ \E t \in TablesToReserve(req) :
                          reservations' = Append(reservations, NewReservation(t, req))
              ELSE UNCHANGED reservations

\* the status change that never frees the table
TableAvailabilityAfter_NeverFreed(status, oldStatus, isAvailable) ==
    IF status = "confirmed" /\ oldStatus # "confirmed" THEN FALSE ELSE isAvailable

\* the status change that looks at the new status only
TableAvailabilityAfter_OnEveryCall(status, oldStatus, isAvailable) ==
    IF status = "confirmed"
    THEN FALSE
    ELSE IF status \in {"cancelled", "completed"}
    THEN TRUE
    ELSE isAvailable

\* lines 783-787: the table's isAvailable after a status change
TableAvailabilityAfter(status, oldStatus, isAvailable) ==
    IF status = "confirmed" /\ oldStatus # "confirmed"
    THEN FALSE
    ELSE IF status \in {"cancelled", "completed"} /\ oldStatus \notin {"cancelled", "completed"}
    THEN TRUE
    ELSE isAvailable

\* PUT /api/reservations/:id/status
UpdateReservationStatus(id, status) ==
    /\ UNCHANGED <<menuItems, inventory, orders, inflight>>
    /\ IF status = ""
       THEN /\ Respond("updateReservationStatus", 400, "Please provide a new status")
            /\ UNCHANGED <<tables, reservations>>
       ELSE IF ~ReservationExists(id)
       THEN /\ Respond("updateReservationStatus", 404, "Reservation not found")
            /\ UNCHANGED <<tables, reservations>>
       ELSE LET oldStatus == reservations[id].status
                t == reservations[id].table
            IN  /\ tables' =
                     IF t # NoId /\ TableExists(t)
                     THEN [tables EXCEPT ![t].isAvailable =
                               TableAvailabilityAfter(status, oldStatus, @)]
                     ELSE tables
                /\ IF status \in ReservationStatusEnum
                   THEN /\ reservations' = [reservations EXCEPT ![id].status = status]
                        /\ Respond("updateReservationStatus", 200, "ok")
                   ELSE /\ UNCHANGED reservations
                        /\ Respond("updateReservationStatus", 500, "Server Error")

\* a delete that frees the table whatever the reservation's status was
DeleteReservation_FreesAlways(id) ==
    /\ UNCHANGED <<menuItems, inventory, orders, inflight>>
    /\ IF ~ReservationExists(id)
       THEN /\ Respond("deleteReservation", 404, "Reservation not found")
            /\ UNCHANGED <<tables, reservations>>
       ELSE LET r == reservations[id]
            IN  /\ reservations' = [reservations EXCEPT ![id] = DeletedReservation]
                /\ tables' =
                     IF r.table # NoId /\ TableExists(r.table)
                     THEN [tables EXCEPT ![r.table].isAvailable = TRUE]
                     ELSE tables
                /\ Respond("deleteReservation", 200, "Reservation removed")

\* DELETE /api/reservations/:id
DeleteReservation(id) ==
    /\ UNCHANGED <<menuItems, inventory, orders, inflight>>
    /\ IF ~ReservationExists(id)
       THEN /\ Respond("deleteReservation", 404, "Reservation not found")
            /\ UNCHANGED <<tables, reservations>>
       ELSE LET r == reservations[id]
            IN  /\ reservations' = [reservations EXCEPT ![id] = DeletedReservation]
                /\ tables' =
                     IF r.table # NoId /\ r.status = "confirmed" /\ TableExists(r.table)
                     THEN [tables EXCEPT ![r.table].isAvailable = TRUE]
                     ELSE tables
                /\ Respond("deleteReservation", 200, "Reservation removed")

(***************************************************************************)
(* Menu routes.                                                            *)
(***************************************************************************)
MenuItemExists(id) == id \in 1..Len(menuItems) /\ menuItems[id].live

LiveMenuItems == {m \in 1..Len(menuItems) : menuItems[m].live}

MenuNameTaken(name) == \E m \in LiveMenuItems : menuItems[m].name = name

\* a lookup that finds no other menu item
MenuNameTakenByOther_Never(name, id) == FALSE

MenuNameTakenByOther(name, id) ==
    \E m \in LiveMenuItems : menuItems[m].name = name /\ m # id

\* POST /api/menu; isAvailable defaults to true
CreateMenuItem(name, price, isAvailable) ==
    /\ UNCHANGED <<tables, reservations, inventory, orders, inflight>>
    /\ IF MenuNameTaken(Trim(name))
       THEN /\ Respond("createMenuItem", 400, "Menu item with this name already exists")
            /\ UNCHANGED menuItems
       ELSE IF name = "" \/ price = << >> \/ (price # << >> /\ price[1] < 0)
       THEN /\ Respond("createMenuItem", 500, "Server Error")
            /\ UNCHANGED menuItems
       ELSE /\ Len(menuItems) < MaxMenuItems
            /\ menuItems' = Append(menuItems,
                   [live |-> TRUE, name |-> Trim(name), price |-> price[1],
                    isAvailable |-> (isAvailable # "false")])
            /\ Respond("createMenuItem", 201, "created")

\* lines 309-315: menuItemFields, the fields of the body that are set
MenuItemFields(item, name, price, isAvailable) ==
    [item EXCEPT
       !.name = IF name # "" THEN Trim(name) ELSE @,
       !.price = IF price # << >> /\ price[1] # 0 THEN price[1] ELSE @,
       !.isAvailable = IF isAvailable # "undefined" THEN isAvailable = "true" ELSE @]

\* PUT /api/menu/:id; findByIdAndUpdate runs no validators
UpdateMenuItem(id, name, price, isAvailable) ==
    /\ UNCHANGED <<tables, reservations, inventory, orders, inflight>>
    /\ IF ~MenuItemExists(id)
       THEN /\ Respond("updateMenuItem", 404, "Menu item not found")
            /\ UNCHANGED menuItems
       ELSE IF /\ name # ""
               /\ name # menuItems[id].name
               /\ MenuNameTakenByOther(Trim(name), id)
       THEN /\ Respond("updateMenuItem", 400, "Menu item with this name already exists")
            /\ UNCHANGED menuItems
       ELSE /\ menuItems' = [menuItems EXCEPT
                               ![id] = MenuItemFields(@, name, price, isAvailable)]
            /\ Respond("updateMenuItem", 200, "ok")

\* DELETE /api/menu/:id
DeleteMenuItem(id) ==
    /\ UNCHANGED <<tables, reservations, inventory, orders, inflight>>
    /\ IF ~MenuItemExists(id)
       THEN /\ Respond("deleteMenuItem", 404, "Menu item not found")
            /\ UNCHANGED menuItems
       ELSE /\ menuItems' = [menuItems EXCEPT ![id] = DeletedMenuItem]
            /\ Respond("deleteMenuItem", 200, "Menu item removed")

(***************************************************************************)
(* Inventory routes and the inventory helper.                              *)
(***************************************************************************)
InventoryExists(id) == id \in 1..Len(inventory) /\ inventory[id].live

LiveInventory == {i \in 1..Len(inventory) : inventory[i].live}

InventoryNameTakenByOther(itemName, id) ==
    \E i \in LiveInventory : inventory[i].itemName = itemName /\ i # id

\* POST /api/inventory; minStockLevel defaults to 0 (lines 199-203)
CreateInventoryItem(itemName, quantity, minStockLevel) ==
    /\ UNCHANGED <<tables, reservations, menuItems, orders, inflight>>
    /\ IF InventoryNameTakenByOther(Trim(itemName), NoId)
       THEN /\ Respond("createInventory", 400, "Inventory item with this name already exists")
            /\ UNCHANGED inventory
       ELSE IF itemName = "" \/ quantity = << >> \/ (quantity # << >> /\ quantity[1] < 0)
       THEN /\ Respond("createInventory", 500, "Server Error")
            /\ UNCHANGED inventory
       ELSE /\ Len(inventory) < MaxInventory
            /\ inventory' = Append(inventory,
                   [live |-> TRUE, itemName |-> Trim(itemName), quantity |-> quantity[1],
                    minStockLevel |-> IF minStockLevel # << >> THEN minStockLevel[1] ELSE 0])
            /\ Respond("createInventory", 201, "created")

\* POST /api/inventory with no minStockLevel in the body
CreateInventory(itemName, quantity) == CreateInventoryItem(itemName, quantity, << >>)

\* lines 239 and 904: the low-stock test on a record
LowStock_StrictlyBelow(item) == item.quantity < item.minStockLevel

LowStock(item) == item.quantity <= item.minStockLevel

\* lines 885-890 and 903: the record findByIdAndUpdate returns
UpdatedInventoryItem(id, itemName, quantity, minStockLevel) ==
    [inventory[id] EXCEPT
        !.itemName = IF itemName # "" THEN Trim(itemName) ELSE @,
        !.quantity = IF quantity # << >> THEN quantity[1] ELSE @,
        !.minStockLevel = IF minStockLevel # << >> THEN minStockLevel[1] ELSE @]

\* PUT /api/inventory/:id: its answer
UpdateInventoryResponse(id, itemName) ==
    IF ~InventoryExists(id)
    THEN Response(404, "Inventory item not found")
    ELSE IF /\ itemName # ""
            /\ itemName # inventory[id].itemName
            /\ InventoryNameTakenByOther(Trim(itemName), id)
    THEN Response(400, "Inventory item with this name already exists")
    ELSE Response(200, "ok")

\* lines 904-906: the LOW STOCK ALERT lines PUT /api/inventory/:id writes, by the
\* name of the record
UpdateInventoryAlerts(id, itemName, quantity, minStockLevel) ==
    IF UpdateInventoryResponse(id, itemName).code # 200
    THEN << >>
    ELSE IF LowStock(UpdatedInventoryItem(id, itemName, quantity, minStockLevel))
    THEN <<UpdatedInventoryItem(id, itemName, quantity, minStockLevel).itemName>>
    ELSE << >>

\* PUT /api/inventory/:id; findByIdAndUpdate runs no validators
UpdateInventoryItem(id, itemName, quantity, minStockLevel) ==
    /\ UNCHANGED <<tables, reservations, menuItems, orders, inflight>>
    /\ LET resp == UpdateInventoryResponse(id, itemName)
       IN  /\ Respond("updateInventory", resp.code, resp.msg)
           /\ IF resp.code = 200
              THEN inventory' = [inventory EXCEPT
                       ![id] = UpdatedInventoryItem(id, itemName, quantity, minStockLevel)]
              ELSE UNCHANGED inventory

\* PUT /api/inventory/:id with no minStockLevel in the body
UpdateInventory(id, itemName, quantity) == UpdateInventoryItem(id, itemName, quantity, << >>)

\* DELETE /api/inventory/:id
DeleteInventory(id) ==
    /\ UNCHANGED <<tables, reservations, menuItems, orders, inflight>>
    /\ IF ~InventoryExists(id)
       THEN /\ Respond("deleteInventory", 404, "Inventory item not found")
            /\ UNCHANGED inventory
       ELSE /\ inventory' = [inventory EXCEPT ![id] = DeletedInventory]
            /\ Respond("deleteInventory", 200, "Inventory item removed")

\* Inventory.findOne({itemName}): the first record of that name, NoId when none
FindInventoryByName(inv, itemName) ==
    LET found == {i \in 1..Len(inv) : inv[i].live /\ inv[i].itemName = itemName}
    IN  IF found = {} THEN NoId ELSE CHOOSE i \in found : \A j \in found : i <= j

\* lines 225-234: the quantity after one adjustment
AdjustedQuantity(quantity, n, isDecrement) ==
    LET q == IF isDecrement THEN quantity - n ELSE quantity + n
    IN  IF q < 0 THEN 0 ELSE q

\* a helper that gives up at the first line whose name has no record
RECURSIVE UpdateInventoryForOrder_Aborting(_, _, _)
UpdateInventoryForOrder_Aborting(inv, orderItems, isDecrement) ==
    IF orderItems = << >>
    THEN inv
    ELSE LET item == Head(orderItems)
             i == FindInventoryByName(inv, item.name)
         IN  IF i = NoId
             THEN inv
             ELSE UpdateInventoryForOrder_Aborting(
                      [inv EXCEPT ![i].quantity =
                                     AdjustedQuantity(@, item.quantity, isDecrement)],
                      Tail(orderItems), isDecrement)

\* updateInventoryForOrder: the inventory after the loop over orderItems
RECURSIVE UpdateInventoryForOrder(_, _, _)
UpdateInventoryForOrder(inv, orderItems, isDecrement) ==
    IF orderItems = << >>
    THEN inv
    ELSE LET item == Head(orderItems)
             i == FindInventoryByName(inv, item.name)
         IN  IF i = NoId
             THEN UpdateInventoryForOrder(inv, Tail(orderItems), isDecrement)
             ELSE UpdateInventoryForOrder(
                      [inv EXCEPT ![i].quantity =
                                     AdjustedQuantity(@, item.quantity, isDecrement)],
                      Tail(orderItems), isDecrement)

\* lines 239-241: the LOW STOCK ALERT lines updateInventoryForOrder writes, one
\* after each save that leaves the record at or below its minStockLevel
RECURSIVE LowStockAlerts(_, _, _)
LowStockAlerts(inv, orderItems, isDecrement) ==
    IF orderItems = << >>
    THEN << >>
    ELSE LET item == Head(orderItems)
             i == FindInventoryByName(inv, item.name)
             saved == [inv EXCEPT ![i].quantity =
                                     AdjustedQuantity(@, item.quantity, isDecrement)]
         IN  IF i = NoId
             THEN LowStockAlerts(inv, Tail(orderItems), isDecrement)
             ELSE (IF LowStock(saved[i]) THEN <<saved[i].itemName>> ELSE << >>)
                     \o LowStockAlerts(saved, Tail(orderItems), isDecrement)

WithinStockBound(inv) == \A i \in 1..Len(inv) : inv[i].quantity <= MaxQuantity

(***************************************************************************)
(* Order routes.                                                           *)
(***************************************************************************)
OrderExists(id) == id \in 1..Len(orders) /\ orders[id].live

OrderItemInputs ==
    UNION { [1..n -> [menuItemId : MenuItemIdInputs, quantity : LineQuantityInputs]] :
              n \in 0..MaxLines }

OrderRequests ==
    [tableId : {1}, items : OrderItemInputs] \cup
    [tableId : {NoId, 2}, items : {<<[menuItemId |-> 1, quantity |-> 1]>>}]

\* the item checks without the availability check of lines 510-512
ItemProblem_IgnoresAvailability(item) ==
    IF ~MenuItemExists(item.menuItemId) THEN "not found"
    ELSE IF item.quantity <= 0 THEN "quantity"
    ELSE ""

\* lines 507-515: what is wrong with one item of the request, "" when nothing is
ItemProblem(item) ==
    IF ~MenuItemExists(item.menuItemId) THEN "not found"
    ELSE IF ~menuItems[item.menuItemId].isAvailable THEN "not available"
    ELSE IF item.quantity <= 0 THEN "quantity"
    ELSE ""

\* a loop that goes through every item and reports the last problem it met
RECURSIVE FirstProblem_LastWins(_)
FirstProblem_LastWins(items) ==
    IF items = << >> THEN ""
    ELSE IF FirstProblem_LastWins(Tail(items)) # "" THEN FirstProblem_LastWins(Tail(items))
    ELSE ItemProblem(Head(items))

\* the loop of lines 505-524 returns at the first item with a problem
RECURSIVE FirstProblem(_)
FirstProblem(items) ==
    IF items = << >> THEN ""
    ELSE IF ItemProblem(Head(items)) # "" THEN ItemProblem(Head(items))
    ELSE FirstProblem(Tail(items))

\* lines 517-521: orderItems, with the price snapshot
OrderItems(items) ==
    [i \in 1..Len(items) |->
        [menuItem |-> items[i].menuItemId, quantity |-> items[i].quantity,
         priceAtOrder |-> menuItems[items[i].menuItemId].price]]

\* a total that adds each line's price once, whatever its quantity
RECURSIVE TotalAmount_IgnoringQuantity(_)
TotalAmount_IgnoringQuantity(orderItems) ==
    IF orderItems = << >>
    THEN 0
    ELSE Head(orderItems).priceAtOrder + TotalAmount_IgnoringQuantity(Tail(orderItems))

\* line 522, accumulated over the loop
RECURSIVE TotalAmount(_)
TotalAmount(orderItems) ==
    IF orderItems = << >>
    THEN 0
    ELSE Head(orderItems).priceAtOrder * Head(orderItems).quantity
           + TotalAmount(Tail(orderItems))

\* line 523: menuItemsForInventoryUpdate
MenuItemsForInventoryUpdate(items) ==
    [i \in 1..Len(items) |->
        [name |-> menuItems[items[i].menuItemId].name, quantity |-> items[i].quantity]]

\* a handler that also refuses a table that is not available
PlaceOrderResponse_ChecksAvailability(req) ==
    IF req.tableId = NoId \/ req.items = << >>
    THEN Response(400, "Please provide tableId and at least one item")
    ELSE IF ~TableExists(req.tableId)
    THEN Response(404, "Table not found")
    ELSE IF ~tables[req.tableId].isAvailable
    THEN Response(400, "Table is currently not available")
    ELSE LET problem == FirstProblem(req.items)
         IN  IF problem = "not found"
             THEN Response(404, "Menu item not found")
             ELSE IF problem = "not available"
             THEN Response(400, "Menu item is currently not available")
             ELSE IF problem = "quantity"
             THEN Response(400, "Quantity must be at least 1")
             ELSE IF \/ \E i \in 1..Len(req.items) :
                           menuItems[req.items[i].menuItemId].price < 0
                     \/ TotalAmount(OrderItems(req.items)) < 0
             THEN Response(500, "Server Error")
             ELSE Response(201, "created")

\* POST /api/orders: the response, by the handler's checks in their order; the
\* save validates priceAtOrder and totalAmount (min 0)
PlaceOrderResponse(req) ==
    IF req.tableId = NoId \/ req.items = << >>
    THEN Response(400, "Please provide tableId and at least one item")
    ELSE IF ~TableExists(req.tableId)
    THEN Response(404, "Table not found")
    ELSE LET problem == FirstProblem(req.items)
         IN  IF problem = "not found"
             THEN Response(404, "Menu item not found")
             ELSE IF problem = "not available"
             THEN Response(400, "Menu item is currently not available")
             ELSE IF problem = "quantity"
             THEN Response(400, "Quantity must be at least 1")
             ELSE IF \/ \E i \in 1..Len(req.items) :
                           menuItems[req.items[i].menuItemId].price < 0
                     \/ TotalAmount(OrderItems(req.items)) < 0
             THEN Response(500, "Server Error")
             ELSE Response(201, "created")

\* an order that is stamped as completed when it is created
NewOrder_Stamped(req) ==
    [live |-> TRUE, table |-> req.tableId, items |-> OrderItems(req.items),
     totalAmount |-> TotalAmount(OrderItems(req.items)), status |-> "pending",
     completionTime |-> 1]

NewOrder(req) ==
    [live |-> TRUE, table |-> req.tableId, items |-> OrderItems(req.items),
     totalAmount |-> TotalAmount(OrderItems(req.items)), status |-> "pending",
     completionTime |-> 0]

\* POST /api/orders
PlaceOrder(req) ==
    /\ UNCHANGED <<tables, reservations, menuItems, inflight>>
    /\ LET resp == PlaceOrderResponse(req)
       IN  /\ Respond("placeOrder", resp.code, resp.msg)
           /\ IF resp.code = 201
              THEN /\ Len(orders) < MaxOrders
                   /\ orders' = Append(orders, NewOrder(req))
                   /\ inventory' = UpdateInventoryForOrder(
                          inventory, MenuItemsForInventoryUpdate(req.items), TRUE)
              ELSE UNCHANGED <<orders, inventory>>

\* POST /api/orders when the store fails inside updateInventoryForOrder, at the
\* findOne or the save of line failAt: newOrder.save() (line 530) has completed,
\* the lines before failAt have been adjusted and saved, the exception leaves the
\* loop and the catch block answers 500; nothing undoes the order
PlaceOrderFault_RollingBack(req, failAt) ==
    /\ UNCHANGED <<tables, reservations, menuItems, inflight>>
    /\ PlaceOrderResponse(req).code = 201
    /\ failAt <= Len(req.items)
    /\ Len(orders) < MaxOrders
    /\ UNCHANGED <<orders, inventory>>
    /\ Respond("placeOrder", 500, "Server Error")

PlaceOrderFault(req, failAt) ==
    /\ UNCHANGED <<tables, reservations, menuItems, inflight>>
    /\ PlaceOrderResponse(req).code = 201
    /\ failAt <= Len(req.items)
    /\ Len(orders) < MaxOrders
    /\ orders' = Append(orders, NewOrder(req))
    /\ inventory' = UpdateInventoryForOrder(
           inventory, SubSeq(MenuItemsForInventoryUpdate(req.items), 1, failAt - 1), TRUE)
    /\ Respond("placeOrder", 500, "Server Error")

\* lines 604-607: itemsToReturn, by the menu items' current names
ItemsToReturn(order) ==
    [i \in 1..Len(order.items) |->
        [name |-> IF MenuItemExists(order.items[i].menuItem)
                  THEN menuItems[order.items[i].menuItem].name
                  ELSE "Unknown Item",
         quantity |-> order.items[i].quantity]]

\* the inventory once order id is cancelled
RestockedInventory(id) ==
    UpdateInventoryForOrder(inventory, ItemsToReturn(orders[id]), FALSE)

\* PUT /api/orders/:id/status; the restock runs before order.save() validates
UpdateOrderStatus(id, status, now) ==
    /\ UNCHANGED <<tables, reservations, menuItems, inflight>>
    /\ IF status = ""
       THEN /\ Respond("updateOrderStatus", 400, "Please provide a new status")
            /\ UNCHANGED <<orders, inventory>>
       ELSE IF ~OrderExists(id)
       THEN /\ Respond("updateOrderStatus", 404, "Order not found")
            /\ UNCHANGED <<orders, inventory>>
       ELSE LET oldStatus == orders[id].status
            IN  /\ inventory' =
                     IF status = "cancelled" /\ oldStatus # "cancelled"
                     THEN RestockedInventory(id)
                     ELSE inventory
                /\ WithinStockBound(inventory')
                /\ IF status \in OrderStatusEnum
                   THEN /\ orders' = [orders EXCEPT
                              ![id].status = status,
                              ![id].completionTime =
                                  IF status = "completed" /\ oldStatus # "completed"
                                  THEN now ELSE @]
                        /\ Respond("updateOrderStatus", 200, "ok")
                   ELSE /\ UNCHANGED orders
                        /\ Respond("updateOrderStatus", 500, "Server Error")

\* a delete that returns the stock of an order that was not cancelled
DeleteOrder_Restocking(id) ==
    /\ UNCHANGED <<tables, reservations, menuItems, inflight>>
    /\ IF ~OrderExists(id)
       THEN /\ Respond("deleteOrder", 404, "Order not found")
            /\ UNCHANGED <<orders, inventory>>
       ELSE /\ orders' = [orders EXCEPT ![id] = DeletedOrder]
            /\ inventory' = IF orders[id].status = "cancelled"
                            THEN inventory
                            ELSE RestockedInventory(id)
            /\ Respond("deleteOrder", 200, "Order removed")

\* DELETE /api/orders/:id
DeleteOrder(id) ==
    /\ UNCHANGED <<tables, reservations, menuItems, inventory, inflight>>
    /\ IF ~OrderExists(id)
       THEN /\ Respond("deleteOrder", 404, "Order not found")
            /\ UNCHANGED orders
       ELSE /\ orders' = [orders EXCEPT ![id] = DeletedOrder]
            /\ Respond("deleteOrder", 200, "Order removed")

(***************************************************************************)
(* POST /api/reservations with other requests running between its awaits.  *)
(* A client's handler is suspended at Table.findById / Table.find, at      *)
(* each Reservation.findOne and at newReservation.save(); what it read     *)
(* before an await is a snapshot.                                          *)
(***************************************************************************)
Clients == 1..MaxClients

NoRequest ==
    [customerName |-> "", phoneNumber |-> "", date |-> "", time |-> "",
     numberOfGuests |-> 0, tableId |-> NoId]

Idle == [pc |-> "idle", req |-> NoRequest, table |-> NoId, candidates |-> << >>]

ConcurrentRequests ==
    {req \in WellFormedReservationRequests :
        /\ req.numberOfGuests \in {2, 5}
        /\ req.date \in {"2025-06-01", "2025-06-02"}}

\* availableTables: the tables in ascending capacity, ties in the store's order
SortedByCapacity(S) ==
    {s \in [1..Cardinality(S) -> S] :
        /\ \A i, j \in 1..Cardinality(S) : i # j => s[i] # s[j]
        /\ \A i, j \in 1..Cardinality(S) :
              i < j => tables[s[i]].capacity <= tables[s[j]].capacity}

Finish(c, code, msg) ==
    /\ Respond("createReservation", code, msg)
    /\ inflight' = [inflight EXCEPT ![c] = Idle]

\* lines 645-651: the request arrives and the handler runs to its first await
ReceiveReservation(c, req) ==
    /\ inflight[c].pc = "idle"
    /\ UNCHANGED <<tables, reservations, menuItems, inventory, orders>>
    /\ IF ~RequiredFieldsPresent(req)
       THEN Finish(c, 400, "Please fill all required fields")
       ELSE /\ inflight' = [inflight EXCEPT ![c] =
                   [Idle EXCEPT !.req = req,
                                !.pc = IF req.tableId # NoId THEN "findTable" ELSE "findTables"]]
            /\ UNCHANGED last

\* lines 652-661: Table.findById and the checks on the table it returned
FindTableStep(c) ==
    /\ inflight[c].pc = "findTable"
    /\ UNCHANGED <<tables, reservations, menuItems, inventory, orders>>
    /\ LET req == inflight[c].req
       IN  IF ~TableExists(req.tableId)
           THEN Finish(c, 404, "Specified table not found")
           ELSE IF ~tables[req.tableId].isAvailable
           THEN Finish(c, 400, "Table is currently not available")
           ELSE IF tables[req.tableId].capacity < req.numberOfGuests
           THEN Finish(c, 400, "Table cannot accommodate guests")
           ELSE /\ inflight' = [inflight EXCEPT ![c].pc = "findExisting",
                                                ![c].table = req.tableId]
                /\ UNCHANGED last

\* lines 662-670: Reservation.findOne for the explicit table
FindExistingStep(c) ==
    /\ inflight[c].pc = "findExisting"
    /\ UNCHANGED <<tables, reservations, menuItems, inventory, orders>>
    /\ LET req == inflight[c].req
       IN  IF ParseDate(req.date) = InvalidDate
           THEN Finish(c, 500, "Server Error")
           ELSE IF ActiveReservationExists(inflight[c].table, ParseDate(req.date), req.time)
           THEN Finish(c, 400, "Table is already reserved")
           ELSE /\ inflight' = [inflight EXCEPT ![c].pc = "save"]
                /\ UNCHANGED last

\* lines 672-678: Table.find(...).sort({capacity: 1})
FindTablesStep(c) ==
    /\ inflight[c].pc = "findTables"
    /\ UNCHANGED <<tables, reservations, menuItems, inventory, orders>>
    /\ LET found == AvailableTables(inflight[c].req.numberOfGuests)
       IN  IF found = {}
           THEN Finish(c, 400, "No available tables found")
           ELSE /\ \E s \in SortedByCapacity(found) :
                      inflight' = [inflight EXCEPT ![c].pc = "scan", ![c].candidates = s]
                /\ UNCHANGED last

\* lines 679-693: one turn of the loop, its Reservation.findOne for the next table
ScanStep(c) ==
    /\ inflight[c].pc = "scan"
    /\ UNCHANGED <<tables, reservations, menuItems, inventory, orders>>
    /\ LET req == inflight[c].req
           tbl == Head(inflight[c].candidates)
       IN  IF ParseDate(req.date) = InvalidDate
           THEN Finish(c, 500, "Server Error")
           ELSE IF ~ActiveReservationExists(tbl, ParseDate(req.date), req.time)
           THEN /\ inflight' = [inflight EXCEPT ![c].pc = "save", ![c].table = tbl,
                                                ![c].candidates = << >>]
                /\ UNCHANGED last
           ELSE IF Tail(inflight[c].candidates) = << >>
           THEN Finish(c, 400, "No suitable table found")
           ELSE /\ inflight' = [inflight EXCEPT ![c].candidates = Tail(@)]
                /\ UNCHANGED last

\* a save that looks for a conflicting reservation once more
SaveStep_Rechecked(c) ==
    /\ inflight[c].pc = "save"
    /\ UNCHANGED <<tables, menuItems, inventory, orders>>
    /\ LET req == inflight[c].req
       IN  IF ActiveReservationExists(inflight[c].table, ParseDate(req.date), req.time)
           THEN /\ Finish(c, 400, "Table is already reserved")
                /\ UNCHANGED reservations
           ELSE /\ Len(reservations) < MaxReservations
                /\ reservations' = Append(reservations, NewReservation(inflight[c].table, req))
                /\ Finish(c, 201, "created")

\* lines 695-705: newReservation.save() and the 201
SaveStep(c) ==
    /\ inflight[c].pc = "save"
    /\ UNCHANGED <<tables, menuItems, inventory, orders>>
    /\ LET req == inflight[c].req
           resp == SaveReservationResponse(req)
       IN  IF resp.code = 201
           THEN /\ Len(reservations) < MaxReservations
                /\ reservations' = Append(reservations, NewReservation(inflight[c].table, req))
                /\ Finish(c, 201, "created")
           ELSE /\ Finish(c, resp.code, resp.msg)
                /\ UNCHANGED reservations

(***************************************************************************)
(* updateInventoryForOrder with other requests running between its awaits. *)
(* A handler is suspended at each Inventory.findOne (line 218) and at each *)
(* inventoryItem.save() (line 237); the document findOne returned is a     *)
(* snapshot, and save() writes the quantity computed from that snapshot.   *)
(* The awaits before the helper read tables, menu items and the order,     *)
(* which no other step changes while the helper runs.                      *)
(***************************************************************************)
MaxConcurrentOrders == 2

NoDoc == [id |-> NoId, quantity |-> 0]

\* a handler inside updateInventoryForOrder: the route it serves, the order it
\* is about, the lines still to adjust and the document it holds
Adjusting(op, order, lines, isDecrement) ==
    [pc |-> "findOne", op |-> op, order |-> order, lines |-> lines,
     isDecrement |-> isDecrement, doc |-> NoDoc]

ConcurrentOrderRequests ==
    {req \in OrderRequests :
        /\ req.tableId = 1
        /\ Len(req.items) = 1
        /\ req.items[1].menuItemId = 1
        /\ req.items[1].quantity > 0}

\* what follows the helper: line 532 for a placement, lines 612-614 for a status
\* change to cancelled
FinishAdjusting(c) ==
    /\ inflight' = [inflight EXCEPT ![c] = Idle]
    /\ IF inflight[c].op = "placeOrder"
       THEN /\ Respond("placeOrder", 201, "created")
            /\ UNCHANGED orders
       ELSE /\ orders' = [orders EXCEPT ![inflight[c].order].status = "cancelled"]
            /\ Respond("updateOrderStatus", 200, "ok")

\* the loop moves to its next line, or the helper returns
NextLine(c) ==
    IF Tail(inflight[c].lines) = << >>
    THEN FinishAdjusting(c)
    ELSE /\ inflight' = [inflight EXCEPT ![c].pc = "findOne", ![c].doc = NoDoc,
                                         ![c].lines = Tail(@)]
         /\ UNCHANGED <<orders, last>>

\* POST /api/orders, lines 490-530: the checks, then newOrder.save()
ReceiveOrder(c, req) ==
    /\ inflight[c].pc = "idle"
    /\ UNCHANGED <<tables, reservations, menuItems, inventory>>
    /\ LET resp == PlaceOrderResponse(req)
       IN  IF resp.code = 201
           THEN /\ Len(orders) < MaxConcurrentOrders
                /\ orders' = Append(orders, NewOrder(req))
                /\ inflight' = [inflight EXCEPT ![c] =
                       Adjusting("placeOrder", Len(orders) + 1,
                                 MenuItemsForInventoryUpdate(req.items), TRUE)]
                /\ UNCHANGED last
           ELSE /\ Respond("placeOrder", resp.code, resp.msg)
                /\ UNCHANGED <<orders, inflight>>

\* PUT /api/orders/:id/status with status cancelled, lines 588-608
ReceiveCancel(c, id) ==
    /\ inflight[c].pc = "idle"
    /\ UNCHANGED <<tables, reservations, menuItems, inventory>>
    /\ IF ~OrderExists(id)
       THEN /\ Respond("updateOrderStatus", 404, "Order not found")
            /\ UNCHANGED <<orders, inflight>>
       ELSE IF orders[id].status = "cancelled"
       THEN /\ Respond("updateOrderStatus", 200, "ok")
            /\ UNCHANGED <<orders, inflight>>
       ELSE /\ inflight' = [inflight EXCEPT ![c] =
                   Adjusting("updateOrderStatus", id, ItemsToReturn(orders[id]), FALSE)]
            /\ UNCHANGED <<orders, last>>

\* lines 218-223: Inventory.findOne for the current line
FindInventoryStep(c) ==
    /\ inflight[c].pc = "findOne"
    /\ UNCHANGED <<tables, reservations, menuItems, inventory>>
    /\ LET i == FindInventoryByName(inventory, Head(inflight[c].lines).name)
       IN  IF i = NoId
           THEN NextLine(c)
           ELSE /\ inflight' = [inflight EXCEPT ![c].pc = "save",
                       ![c].doc = [id |-> i, quantity |-> inventory[i].quantity]]
                /\ UNCHANGED <<orders, last>>

\* a save that applies the line to the quantity the record holds now
SaveInventoryStep_OnCurrent(c) ==
    /\ inflight[c].pc = "save"
    /\ UNCHANGED <<tables, reservations, menuItems>>
    /\ LET doc == inflight[c].doc
           quantity == AdjustedQuantity(inventory[doc.id].quantity,
                           Head(inflight[c].lines).quantity, inflight[c].isDecrement)
       IN  /\ quantity <= MaxQuantity
           /\ inventory' = [inventory EXCEPT ![doc.id].quantity = quantity]
    /\ NextLine(c)

\* lines 225-237: the quantity is computed from the document findOne returned and
\* save() sends the paths that changed, so a quantity equal to the one that was
\* read is not written
SaveInventoryStep(c) ==
    /\ inflight[c].pc = "save"
    /\ UNCHANGED <<tables, reservations, menuItems>>
    /\ LET doc == inflight[c].doc
           quantity == AdjustedQuantity(doc.quantity,
                           Head(inflight[c].lines).quantity, inflight[c].isDecrement)
       IN  /\ quantity <= MaxQuantity
           /\ inventory' = IF quantity = doc.quantity
                           THEN inventory
                           ELSE [inventory EXCEPT ![doc.id].quantity = quantity]
    /\ NextLine(c)

(***************************************************************************)
(* The state after start-up: empty collections, no request in flight.      *)
(***************************************************************************)
Init ==
    /\ tables = << >>
    /\ reservations = << >>
    /\ menuItems = << >>
    /\ inventory = << >>
    /\ orders = << >>
    /\ last = NoResponse
    /\ inflight = [c \in Clients |-> Idle]

(***************************************************************************)
(* The reservation engine, one request at a time.                          *)
(***************************************************************************)
NextRes ==
    \/ \E c \in CapacityInputs : CreateTable(Len(tables) + 1, c)
    \/ \E id \in TableIdInputs, a \in BooleanInputs : SetTableAvailability(id, a)
    \/ \E id \in TableIdInputs : DeleteTable(id)
    \/ \E req \in ReservationRequests : CreateReservation(req)
    \/ \E id \in ReservationIdInputs, s \in ReservationStatusInputs :
           UpdateReservationStatus(id, s)
    \/ \E id \in ReservationIdInputs : DeleteReservation(id)

SpecRes == Init /\ [][NextRes]_vars

(***************************************************************************)
(* The reservation engine alone: tables are created, and from then on only *)
(* createReservation, reservation updateStatus and deleteReservation run.  *)
(***************************************************************************)
NextResEngine ==
    \/ \E c \in CapacityInputs : CreateTable(Len(tables) + 1, c)
    \/ \E req \in ReservationRequests : CreateReservation(req)
    \/ \E id \in ReservationIdInputs, s \in ReservationStatusInputs :
           UpdateReservationStatus(id, s)
    \/ \E id \in ReservationIdInputs : DeleteReservation(id)

SpecResEngine == Init /\ [][NextResEngine]_vars

(***************************************************************************)
(* Concurrent createReservation requests: tables are created, and clients  *)
(* run POST /api/reservations with their awaits interleaved.               *)
(***************************************************************************)
NextResConcurrent ==
    \/ \E c \in CapacityInputs : CreateTable(Len(tables) + 1, c)
    \/ \E c \in Clients, req \in ConcurrentRequests : ReceiveReservation(c, req)
    \/ \E c \in Clients : FindTableStep(c)
    \/ \E c \in Clients : FindExistingStep(c)
    \/ \E c \in Clients : FindTablesStep(c)
    \/ \E c \in Clients : ScanStep(c)
    \/ \E c \in Clients : SaveStep(c)

SpecResConcurrent == Init /\ [][NextResConcurrent]_vars

(***************************************************************************)
(* Orders and the menu: one table, menu items created and edited, orders   *)
(* placed, moved through their statuses and deleted.  No inventory record  *)
(* is kept, so the inventory helper finds nothing to adjust.               *)
(***************************************************************************)
MenuNameOf(id) == IF id = 1 THEN "Soup" ELSE "Tea"

NextOrderMenu ==
    \/ CreateTable(1, 2)
    \/ \E price \in PriceInputs, a \in {"undefined", "false"} :
           CreateMenuItem(MenuNameOf(Len(menuItems) + 1), price, a)
    \/ \E id \in MenuItemIdInputs, price \in PriceInputs, a \in BooleanInputs :
           (price = << >> \/ a = "undefined") /\ UpdateMenuItem(id, "", price, a)
    \/ \E id \in MenuItemIdInputs : DeleteMenuItem(id)
    \/ \E req \in OrderRequests : PlaceOrder(req)
    \/ \E id \in OrderIdInputs, s \in {"", "completed", "served"}, now \in ClockInputs :
           UpdateOrderStatus(id, s, now)
    \/ \E id \in OrderIdInputs : DeleteOrder(id)

SpecOrderMenu == Init /\ [][NextOrderMenu]_vars

(***************************************************************************)
(* Orders and the stock: one table, menu items at a fixed price, inventory *)
(* records created and edited, orders placed, moved through their statuses *)
(* and deleted.                                                            *)
(***************************************************************************)
NextOrderStock ==
    \/ CreateTable(1, 2)
    \/ CreateMenuItem(MenuNameOf(Len(menuItems) + 1), <<2>>, "undefined")
    \/ \E q \in StockInputs : CreateInventory(MenuNameOf(Len(inventory) + 1), q)
    \/ \E id \in InventoryIdInputs, q \in StockInputs : UpdateInventory(id, "", q)
    \/ \E req \in OrderRequests : PlaceOrder(req)
    \/ \E id \in OrderIdInputs, s \in OrderStatusInputs, now \in ClockInputs :
           UpdateOrderStatus(id, s, now)
    \/ \E id \in OrderIdInputs : DeleteOrder(id)

SpecOrderStock == Init /\ [][NextOrderStock]_vars

(***************************************************************************)
(* Status changes: one table, menu items and inventory records of fixed    *)
(* price and quantity, one-line orders and reservations for one evening,   *)
(* each moved through its statuses.                                        *)
(***************************************************************************)
StatusOrderRequests == {req \in OrderRequests : req.tableId = 1 /\ Len(req.items) = 1}

StatusReservationRequests ==
    {req \in WellFormedReservationRequests :
        req.date = "2025-06-01" /\ req.numberOfGuests = 2 /\ req.tableId = 1}

NextStatus ==
    \/ CreateTable(1, 2)
    \/ CreateMenuItem(MenuNameOf(Len(menuItems) + 1), <<2>>, "undefined")
    \/ CreateInventory(MenuNameOf(Len(inventory) + 1), <<1>>)
    \/ \E req \in StatusOrderRequests : PlaceOrder(req)
    \/ \E id \in OrderIdInputs, s \in OrderStatusInputs, now \in ClockInputs :
           UpdateOrderStatus(id, s, now)
    \/ \E req \in StatusReservationRequests : CreateReservation(req)
    \/ \E id \in ReservationIdInputs, s \in ReservationStatusInputs :
           UpdateReservationStatus(id, s)

SpecStatus == Init /\ [][NextStatus]_vars

(***************************************************************************)
(* The life of an order: one table, menu items at a fixed price, one-line  *)
(* orders placed, moved through their statuses at two readings of the      *)
(* clock, and deleted.                                                     *)
(***************************************************************************)
NextOrderLife ==
    \/ CreateTable(1, 2)
    \/ CreateMenuItem(MenuNameOf(Len(menuItems) + 1), <<2>>, "undefined")
    \/ \E req \in StatusOrderRequests : PlaceOrder(req)
    \/ \E id \in OrderIdInputs, s \in OrderStatusInputs, now \in ClockReadings :
           UpdateOrderStatus(id, s, now)
    \/ \E id \in OrderIdInputs : DeleteOrder(id)

SpecOrderLife == Init /\ [][NextOrderLife]_vars

(***************************************************************************)
(* Names and numbers: tables, menu items and inventory records created,    *)
(* renamed or renumbered, and deleted, one request at a time.              *)
(***************************************************************************)
NextNames ==
    \/ \E n \in {1, 2} : CreateTable(n, 2)
    \/ \E id \in TableIdInputs, n \in TableNumberInputs :
           UpdateTable(id, n, << >>, "undefined")
    \/ \E id \in TableIdInputs : DeleteTable(id)
    \/ \E name \in NameInputs : CreateMenuItem(name, <<2>>, "undefined")
    \/ \E id \in MenuItemIdInputs, name \in NameInputs \cup {""} :
           UpdateMenuItem(id, name, << >>, "undefined")
    \/ \E id \in MenuItemIdInputs : DeleteMenuItem(id)
    \/ \E name \in NameInputs : CreateInventory(name, <<1>>)
    \/ \E id \in InventoryIdInputs, name \in NameInputs \cup {""} :
           UpdateInventory(id, name, << >>)
    \/ \E id \in InventoryIdInputs : DeleteInventory(id)

SpecNames == Init /\ [][NextNames]_vars

(***************************************************************************)
(* Restocking: every menu item has an inventory record, created with the   *)
(* same quantity, before an order is placed; an order has one line and     *)
(* asks for no more than that quantity, so its placement removes exactly   *)
(* what it asks for; the order is then moved through its statuses.         *)
(***************************************************************************)
StartingStock == <<1>>

RestockOrderRequests ==
    {req \in StatusOrderRequests : req.items[1].quantity <= StartingStock[1]}

EveryMenuItemIsStocked ==
    \A m \in LiveMenuItems : FindInventoryByName(inventory, menuItems[m].name) # NoId

NextRestock ==
    \/ CreateTable(1, 2)
    \/ CreateMenuItem(MenuNameOf(Len(menuItems) + 1), <<2>>, "undefined")
    \/ CreateInventory(MenuNameOf(Len(inventory) + 1), StartingStock)
    \/ \E req \in RestockOrderRequests : EveryMenuItemIsStocked /\ PlaceOrder(req)
    \/ \E id \in OrderIdInputs, s \in OrderStatusInputs, now \in ClockInputs :
           UpdateOrderStatus(id, s, now)

SpecRestock == Init /\ [][NextRestock]_vars

(***************************************************************************)
(* Orders placed while the store may fail during the inventory adjustment. *)
(***************************************************************************)
FaultInputs == 1..MaxLines

NextOrderFault ==
    \/ CreateTable(1, 2)
    \/ CreateMenuItem(MenuNameOf(Len(menuItems) + 1), <<2>>, "undefined")
    \/ CreateInventory(MenuNameOf(Len(inventory) + 1), <<2>>)
    \/ \E req \in OrderRequests : PlaceOrder(req)
    \/ \E req \in OrderRequests, failAt \in FaultInputs : PlaceOrderFault(req, failAt)

SpecOrderFault == Init /\ [][NextOrderFault]_vars

(***************************************************************************)
(* Two clients placing and cancelling one-line orders for the same item,   *)
(* whose inventory record exists before the first order is placed.         *)
(***************************************************************************)
NextStockConcurrent ==
    \/ CreateTable(1, 2)
    \/ CreateMenuItem(MenuNameOf(Len(menuItems) + 1), <<2>>, "undefined")
    \/ CreateInventory(MenuNameOf(Len(inventory) + 1), <<2>>)
    \/ \E c \in Clients, req \in ConcurrentOrderRequests :
           EveryMenuItemIsStocked /\ ReceiveOrder(c, req)
    \/ \E c \in Clients, id \in 1..MaxConcurrentOrders : ReceiveCancel(c, id)
    \/ \E c \in Clients : FindInventoryStep(c)
    \/ \E c \in Clients : SaveInventoryStep(c)

SpecStockConcurrent == Init /\ [][NextStockConcurrent]_vars

(***************************************************************************)
(* Orders that are refused: one table, menu items that may be unavailable  *)
(* or deleted, an inventory record for each name, orders placed.           *)
(***************************************************************************)
NextOrderReject ==
    \/ CreateTable(1, 2)
    \/ \E a \in {"undefined", "false"} :
           CreateMenuItem(MenuNameOf(Len(menuItems) + 1), <<2>>, a)
    \/ \E id \in MenuItemIdInputs : DeleteMenuItem(id)
    \/ CreateInventory(MenuNameOf(Len(inventory) + 1), <<2>>)
    \/ \E req \in OrderRequests : PlaceOrder(req)

SpecOrderReject == Init /\ [][NextOrderReject]_vars

(***************************************************************************)
(* Orders at tables that are reserved, occupied or withdrawn: tables are   *)
(* created, switched and deleted, reservations made and confirmed, menu    *)
(* items created, one-line orders placed.                                  *)
(***************************************************************************)
TableOrderRequests == {req \in OrderRequests : Len(req.items) = 1}

NextOrderTable ==
    \/ CreateTable(Len(tables) + 1, 2)
    \/ \E id \in TableIdInputs, a \in BooleanInputs : SetTableAvailability(id, a)
    \/ \E id \in TableIdInputs : DeleteTable(id)
    \/ \E req \in StatusReservationRequests : CreateReservation(req)
    \/ \E id \in ReservationIdInputs, s \in {"confirmed", "cancelled"} :
           UpdateReservationStatus(id, s)
    \/ CreateMenuItem(MenuNameOf(Len(menuItems) + 1), <<2>>, "undefined")
    \/ \E req \in TableOrderRequests : PlaceOrder(req)

SpecOrderTable == Init /\ [][NextOrderTable]_vars

(***************************************************************************)
(* Stock levels: inventory records created and updated with a minimum      *)
(* stock level, one-line orders placed, cancelled and reopened.            *)
(***************************************************************************)
MinStockInputs == {<< >>, <<0>>, <<1>>}

LevelInputs == {<< >>, <<0>>, <<1>>, <<2>>}

NextLowStock ==
    \/ CreateTable(1, 2)
    \/ CreateMenuItem(MenuNameOf(Len(menuItems) + 1), <<2>>, "undefined")
    \/ \E q \in LevelInputs, m \in MinStockInputs :
           CreateInventoryItem(MenuNameOf(Len(inventory) + 1), q, m)
    \/ \E id \in InventoryIdInputs, q \in LevelInputs, m \in MinStockInputs :
           UpdateInventoryItem(id, "", q, m)
    \/ \E req \in StatusOrderRequests : PlaceOrder(req)
    \/ \E id \in OrderIdInputs, s \in {"pending", "cancelled"}, now \in ClockInputs :
           UpdateOrderStatus(id, s, now)

SpecLowStock == Init /\ [][NextLowStock]_vars

(***************************************************************************)
(* Claims about the reservation engine.                                    *)
(***************************************************************************)
IsActive(r) == reservations[r].live /\ reservations[r].status \in ActiveStatuses

SameSlot(r1, r2) ==
    /\ reservations[r1].table = reservations[r2].table
    /\ reservations[r1].date = reservations[r2].date
    /\ reservations[r1].time = reservations[r2].time

DoubleBooked ==
    \E r1, r2 \in 1..Len(reservations) :
        r1 # r2 /\ IsActive(r1) /\ IsActive(r2) /\ SameSlot(r1, r2)

\* C1: in every state reached by createReservation, reservation updateStatus and
\* deleteReservation calls run one after another, each {table, date, time} has at
\* most one reservation whose status is pending or confirmed.
C1_AtMostOneActivePerSlot == ~DoubleBooked

\* a pending or confirmed reservation holds table t at date d, time tm
SlotHeld(t, d, tm) ==
    \E r \in 1..Len(reservations) :
        /\ IsActive(r)
        /\ reservations[r].table = t
        /\ reservations[r].date = d
        /\ reservations[r].time = tm

ExplicitRequests == {req \in ReservationRequests : req.tableId # NoId}

SlotTaken(req) == SlotHeld(req.tableId, ParseDate(req.date), req.time)

\* a rejected createReservation persists nothing
RejectedReservationPersistsNothing ==
    (last'.op = "createReservation" /\ last'.code # 201) => reservations' = reservations

\* an explicit table that exists, is available and large enough, for a request
\* that passes validation, is reserved unless an active reservation holds the slot
ExplicitTableReservedWhenSlotFree ==
    \A req \in ExplicitRequests :
        ( /\ RequiredFieldsPresent(req)
          /\ req.numberOfGuests >= 1
          /\ ParseDate(req.date) # InvalidDate
          /\ TableExists(req.tableId)
          /\ tables[req.tableId].isAvailable
          /\ tables[req.tableId].capacity >= req.numberOfGuests
          /\ ~SlotTaken(req) )
        => ReservationResponse(req).code = 201

AutoRequests == {req \in ReservationRequests : req.tableId = NoId}

\* the tables the claim lets auto-assignment choose from
EligibleTables(req) ==
    {t \in LiveTables :
        /\ tables[t].isAvailable
        /\ tables[t].capacity >= req.numberOfGuests
        /\ ~SlotHeld(t, ParseDate(req.date), req.time)}

AutoAssignmentIsMinimal ==
    \A req \in AutoRequests :
        LET resp == ReservationResponse(req)
        IN  /\ EligibleTables(req) = {} => resp.code = 400
            /\ ( /\ EligibleTables(req) # {}
                 /\ RequiredFieldsPresent(req)
                 /\ req.numberOfGuests >= 1
                 /\ ParseDate(req.date) # InvalidDate ) => resp.code = 201
            /\ resp.code = 201 =>
                 /\ TablesToReserve(req) # {}
                 /\ \A t \in TablesToReserve(req) :
                       /\ t \in EligibleTables(req)
                       /\ \A u \in EligibleTables(req) :
                             tables[t].capacity <= tables[u].capacity

\* a created reservation is appended as pending on a table free at its slot
CreatedReservationIsOnFreeTable ==
    (last'.op = "createReservation" /\ last'.code = 201) =>
        /\ Len(reservations') = Len(reservations) + 1
        /\ SubSeq(reservations', 1, Len(reservations)) = reservations
        /\ LET new == reservations'[Len(reservations')]
           IN  /\ new.live
               /\ new.status = "pending"
               /\ TableExists(new.table)
               /\ tables[new.table].isAvailable
               /\ ~SlotHeld(new.table, new.date, new.time)

\* C4: createReservation without a tableId reserves a table of minimum capacity
\* among the available tables that seat the party and have no pending or
\* confirmed reservation at the requested date and time; when there is none it
\* answers 400 and persists nothing.
C4_AutoAssignMinimumCapacity ==
    /\ []AutoAssignmentIsMinimal
    /\ [][CreatedReservationIsOnFreeTable]_vars
    /\ [][RejectedReservationPersistsNothing]_vars

\* a reservation was just created on a table while a smaller table is live and
\* available (it is booked at the slot, or too small for the party)
C4_Witness ==
    /\ last.op = "createReservation"
    /\ last.code = 201
    /\ LET new == reservations[Len(reservations)]
       IN  \E u \in LiveTables :
              /\ tables[u].isAvailable
              /\ tables[u].capacity < tables[new.table].capacity

\* updateStatus to cancelled of a confirmed reservation frees its table, and
\* deleting a pending reservation leaves every table as it was
CancelFreesAndPendingDeleteKeeps(id) ==
    /\ ( /\ reservations[id].status = "confirmed"
         /\ UpdateReservationStatus(id, "cancelled") )
       => tables'[reservations[id].table].isAvailable
    /\ ( /\ reservations[id].status = "pending"
         /\ DeleteReservation(id) )
       => tables' = tables

HasTable(id) == ReservationExists(id) /\ TableExists(reservations[id].table)

C3_PassedCheckAlwaysPersists ==
    [][\A c \in Clients :
          (inflight[c].pc = "save" /\ inflight'[c].pc # "save") =>
             /\ last'.code = 201
             /\ reservations' =
                  Append(reservations,
                         [live |-> TRUE, table |-> inflight[c].table,
                          date |-> ParseDate(inflight[c].req.date),
                          time |-> inflight[c].req.time, status |-> "pending"])]_vars

\* two pending reservations hold the same table, date and time
C3_Witness ==
    \E r1, r2 \in 1..Len(reservations) :
        /\ r1 # r2
        /\ SameSlot(r1, r2)
        /\ reservations[r1].live /\ reservations[r1].status = "pending"
        /\ reservations[r2].live /\ reservations[r2].status = "pending"

(***************************************************************************)
(* Claims about orders, the menu and the stock.                            *)
(***************************************************************************)
PlacedOrder == last'.op = "placeOrder" /\ last'.code = 201

RECURSIVE SumOfLines(_, _)
SumOfLines(items, n) ==
    IF n = 0 THEN 0
    ELSE items[n].priceAtOrder * items[n].quantity + SumOfLines(items, n - 1)

PlacementSnapshotsPrices ==
    PlacedOrder =>
       /\ Len(orders') = Len(orders) + 1
       /\ \A id \in 1..Len(orders) : orders'[id] = orders[id]
       /\ LET o == orders'[Len(orders')]
          IN  /\ o.live /\ o.status = "pending" /\ o.items # << >>
              /\ \A i \in 1..Len(o.items) :
                    /\ MenuItemExists(o.items[i].menuItem)
                    /\ o.items[i].priceAtOrder = menuItems[o.items[i].menuItem].price
              /\ o.totalAmount = SumOfLines(o.items, Len(o.items))

AmountsNeverChange ==
    \A id \in 1..Len(orders) :
        (orders[id].live /\ orders'[id].live) =>
           /\ orders'[id].items = orders[id].items
           /\ orders'[id].totalAmount = orders[id].totalAmount

\* C6: the order that placeOrder creates has each line's priceAtOrder equal to the
\* menu item's price at that moment and totalAmount equal to the sum of
\* priceAtOrder x quantity over its lines, and no later operation (menu price
\* update, menu item deletion, order status update) changes either.
C6_TotalIsSumOfPriceSnapshots ==
    /\ [](\A id \in 1..Len(orders) :
             orders[id].live =>
                orders[id].totalAmount = SumOfLines(orders[id].items, Len(orders[id].items)))
    /\ [][PlacementSnapshotsPrices]_vars
    /\ [][AmountsNeverChange]_vars

\* a completed two-line order whose first menu item has since changed its price and
\* whose second menu item has since been deleted
C6_Witness ==
    \E id \in 1..Len(orders) :
        /\ orders[id].live
        /\ orders[id].status = "completed"
        /\ Len(orders[id].items) = 2
        /\ orders[id].items[1].quantity = 2
        /\ MenuItemExists(orders[id].items[1].menuItem)
        /\ menuItems[orders[id].items[1].menuItem].price # orders[id].items[1].priceAtOrder
        /\ ~MenuItemExists(orders[id].items[2].menuItem)
        /\ orders[id].totalAmount =
             2 * orders[id].items[1].priceAtOrder
               + orders[id].items[2].priceAtOrder * orders[id].items[2].quantity

\* C7: cancelling a pending order right after its placement returns every inventory
\* quantity to its value before the placement, whatever the ordered quantities:
\* the inventory that the cancellation of the order just placed produces is the
\* inventory the placement started from.
C7_CancelRestoresStock ==
    [][PlacedOrder => RestockedInventory(Len(orders))' = inventory]_vars

\* the lines of an order that adjust inventory record i
LinesOn(order, i) ==
    {k \in 1..Len(order.items) :
        /\ MenuItemExists(order.items[k].menuItem)
        /\ menuItems[order.items[k].menuItem].name = inventory[i].itemName}

DecrementClamps(i) ==
    LET o == orders'[Len(orders')]
    IN  \A k \in LinesOn(o, i) :
           Cardinality(LinesOn(o, i)) = 1 =>
              /\ inventory'[i].quantity >= 0
              /\ inventory'[i].quantity =
                   IF o.items[k].quantity > inventory[i].quantity
                   THEN 0
                   ELSE inventory[i].quantity - o.items[k].quantity

IncrementAdds(id, i) ==
    \A k \in LinesOn(orders[id], i) :
       Cardinality(LinesOn(orders[id], i)) = 1 =>
          /\ inventory'[i].quantity >= 0
          /\ inventory'[i].quantity = inventory[i].quantity + orders[id].items[k].quantity

CancelledNow(id) ==
    /\ last'.op = "updateOrderStatus"
    /\ orders[id].live
    /\ orders[id].status # "cancelled"
    /\ orders'[id].status = "cancelled"

\* C8: after an adjustment by order placement or order cancellation the adjusted
\* record's quantity is >= 0: a decrement larger than the current quantity leaves
\* exactly 0, any other decrement leaves current minus the line quantity, and an
\* increment leaves current plus the line quantity.
C8_AdjustmentIsClampedDelta ==
    [][\A i \in LiveInventory :
          /\ PlacedOrder => DecrementClamps(i)
          /\ \A id \in 1..Len(orders) : CancelledNow(id) => IncrementAdds(id, i)]_vars

\* C9: in every reachable state every inventory record has quantity >= 0.
C9_QuantityNeverNegative ==
    \A i \in LiveInventory : inventory[i].quantity >= 0

UnavailableAt(req, i) ==
    /\ MenuItemExists(req.items[i].menuItemId)
    /\ ~menuItems[req.items[i].menuItemId].isAvailable

HasUnavailableItem(req) == \E i \in 1..Len(req.items) : UnavailableAt(req, i)

\* the handler reaches a menu item that does not exist before any other problem
MissingItemComesFirst(req) ==
    \E j \in 1..Len(req.items) :
        /\ ~MenuItemExists(req.items[j].menuItemId)
        /\ \A k \in 1..(j - 1) :
              /\ MenuItemExists(req.items[k].menuItemId)
              /\ menuItems[req.items[k].menuItemId].isAvailable
              /\ req.items[k].quantity > 0

RejectedOrderPersistsNothing ==
    (last'.op = "placeOrder" /\ last'.code # 201) => orders' = orders

\* C10 as stated: placeOrder containing a menu item whose isAvailable is false
\* answers 400, and the Order records are the same after the call as before it.
C10_UnavailableIsAlways400 ==
    /\ [](\A req \in OrderRequests :
             HasUnavailableItem(req) => PlaceOrderResponse(req).code = 400)
    /\ [][RejectedOrderPersistsNothing]_vars

\* C10, amended: placeOrder containing a menu item whose isAvailable is false
\* fails and leaves the Order records as they were; it answers 404 when the table
\* does not exist or a menu item that does not exist is reached first, and 400 in
\* every other case.
C10_UnavailableRejected ==
    /\ [](\A req \in OrderRequests :
             HasUnavailableItem(req) =>
                PlaceOrderResponse(req).code =
                   IF /\ req.tableId # NoId
                      /\ (~TableExists(req.tableId) \/ MissingItemComesFirst(req))
                   THEN 404
                   ELSE 400)
    /\ [][RejectedOrderPersistsNothing]_vars

\* an order naming an unavailable menu item has just been refused while the table
\* and an available menu item exist, and no order is stored
C10_Witness ==
    /\ last.op = "placeOrder"
    /\ last.code = 400
    /\ last.msg = "Menu item is currently not available"
    /\ TableExists(1)
    /\ \E m \in LiveMenuItems : ~menuItems[m].isAvailable
    /\ \E m \in LiveMenuItems : menuItems[m].isAvailable
    /\ orders = << >>

(***************************************************************************)
(* Claims about status changes.                                            *)
(***************************************************************************)
OrderStatusValues == {"pending", "preparing", "completed", "cancelled"}

ReservationStatusValues == {"pending", "confirmed", "cancelled", "completed"}

\* the step is PUT /api/orders/id/status with body {status: s}
OrderStatusRequested(id, s) ==
    /\ last'.op = "updateOrderStatus"
    /\ OrderExists(id)
    /\ \E now \in ClockInputs : UpdateOrderStatus(id, s, now)

\* the step is PUT /api/reservations/id/status with body {status: s}
ReservationStatusRequested(id, s) ==
    /\ last'.op = "updateReservationStatus"
    /\ ReservationExists(id)
    /\ UpdateReservationStatus(id, s)

\* C11 as stated: updateStatus of an existing order, in any current status and
\* with any requested status value, succeeds and persists the requested value;
\* the same holds for reservation updateStatus.
C11_AnyStatusValueAccepted ==
    [][/\ \A id \in OrderIdInputs, s \in OrderStatusInputs \ {""} :
             OrderStatusRequested(id, s) =>
                last'.code = 200 /\ orders'[id].status = s
       /\ \A id \in ReservationIdInputs, s \in ReservationStatusInputs \ {""} :
             ReservationStatusRequested(id, s) =>
                last'.code = 200 /\ reservations'[id].status = s]_vars

\* C11, amended: updateStatus of an existing order, in any current status and
\* with any requested status of the schema's enumeration, succeeds and persists
\* the requested value (no transition graph); a requested value outside the
\* enumeration is answered 500 and the persisted status stays as it was.  The
\* same holds for reservation updateStatus with the reservation enumeration.
C11_AnyEnumeratedStatusAccepted ==
    [][/\ \A id \in OrderIdInputs, s \in OrderStatusInputs \ {""} :
             OrderStatusRequested(id, s) =>
                IF s \in OrderStatusValues
                THEN last'.code = 200 /\ orders'[id].status = s
                ELSE last'.code = 500 /\ orders'[id].status = orders[id].status
       /\ \A id \in ReservationIdInputs, s \in ReservationStatusInputs \ {""} :
             ReservationStatusRequested(id, s) =>
                IF s \in ReservationStatusValues
                THEN last'.code = 200 /\ reservations'[id].status = s
                ELSE last'.code = 500
                     /\ reservations'[id].status = reservations[id].status]_vars

\* an order that was completed is pending again, and a reservation that was
\* confirmed (its table is still unavailable) is pending again
C11_Witness ==
    /\ last.code = 200
    /\ \E id \in 1..Len(orders) :
          /\ orders[id].live
          /\ orders[id].status = "pending"
          /\ orders[id].completionTime # 0
    /\ \E r \in LiveReservations :
          /\ reservations[r].status = "pending"
          /\ TableExists(reservations[r].table)
          /\ ~tables[reservations[r].table].isAvailable

\* the step moves order id into completed from another status, at clock reading now
CompletedNow(id, now) ==
    /\ last'.op = "updateOrderStatus"
    /\ OrderExists(id)
    /\ orders[id].status # "completed"
    /\ UpdateOrderStatus(id, "completed", now)

\* C12: an order's completionTime is set only by an updateStatus that moves it
\* into completed from a non-completed status: a newly placed order has none, any
\* other step (completed on a completed order, any other status, any other
\* operation) leaves it as it was, so an order that was never completed has none.
C12_CompletionTimeOnlyOnCompletion ==
    /\ [][PlacedOrder => orders'[Len(orders')].completionTime = 0]_vars
    /\ [][\A id \in 1..Len(orders) :
             (orders[id].live /\ orders'[id].live
                /\ orders'[id].completionTime # orders[id].completionTime) =>
                /\ last'.op = "updateOrderStatus"
                /\ last'.code = 200
                /\ orders[id].status # "completed"
                /\ orders'[id].status = "completed"]_vars
    /\ [][\A id \in OrderIdInputs, now \in ClockReadings :
             CompletedNow(id, now) => orders'[id].completionTime = now]_vars
    /\ [](\A id \in 1..Len(orders) :
             (orders[id].live /\ orders[id].status = "completed") =>
                orders[id].completionTime # 0)

\* an order that was completed at the later reading has since been cancelled and
\* still carries that completionTime
C12_Witness ==
    /\ last.op = "updateOrderStatus"
    /\ last.code = 200
    /\ \E id \in 1..Len(orders) :
          /\ orders[id].live
          /\ orders[id].status = "cancelled"
          /\ orders[id].completionTime = 2

\* the quantity that the first n lines of an order hold of inventory record i
RECURSIVE QuantityOn(_, _, _)
QuantityOn(order, i, n) ==
    IF n = 0 THEN 0
    ELSE (IF n \in LinesOn(order, i) THEN order.items[n].quantity ELSE 0)
           + QuantityOn(order, i, n - 1)

\* the step is PUT /api/orders/id/status with body {status: 'cancelled'}
CancelRequested(id) ==
    /\ last'.op = "updateOrderStatus"
    /\ OrderExists(id)
    /\ \E now \in ClockInputs : UpdateOrderStatus(id, "cancelled", now)

\* C13: updateStatus to cancelled on an order that is not cancelled increases, for
\* each line, the inventory record named after the line's menu item by the line
\* quantity; on an order that is already cancelled it changes no inventory record.
C13_CancelRestocksEachLineOnce ==
    [][\A id \in OrderIdInputs :
          CancelRequested(id) =>
             IF orders[id].status = "cancelled"
             THEN inventory' = inventory
             ELSE \A i \in LiveInventory :
                     inventory'[i].quantity =
                        inventory[i].quantity
                          + QuantityOn(orders[id], i, Len(orders[id].items))]_vars

(***************************************************************************)
(* More claims about the reservation engine.                               *)
(***************************************************************************)
\* the step is DELETE /api/reservations/id of an existing reservation
ReservationDeleted(id) ==
    /\ last'.op = "deleteReservation"
    /\ ReservationExists(id)
    /\ DeleteReservation(id)

\* C14: deleteReservation removes the reservation record and, when the deleted
\* reservation was confirmed, sets its table's isAvailable to true; for a deleted
\* reservation in any other status every table's isAvailable is unchanged.
C14_DeleteFreesConfirmedOnly ==
    [][\A id \in ReservationIdInputs :
          ReservationDeleted(id) =>
             /\ last'.code = 200
             /\ Len(reservations') = Len(reservations)
             /\ ~reservations'[id].live
             /\ \A r \in 1..Len(reservations) : r # id => reservations'[r] = reservations[r]
             /\ LET t == reservations[id].table
                IN  IF reservations[id].status = "confirmed" /\ TableExists(t)
                    THEN tables' = [tables EXCEPT ![t].isAvailable = TRUE]
                    ELSE tables' = tables]_vars

\* a reservation has just been deleted and the table of a reservation that is
\* still confirmed is available
C14_Witness ==
    /\ last.op = "deleteReservation"
    /\ last.code = 200
    /\ \E r \in 1..Len(reservations) : ~reservations[r].live
    /\ \E r \in LiveReservations :
          /\ reservations[r].status = "confirmed"
          /\ TableExists(reservations[r].table)
          /\ tables[reservations[r].table].isAvailable

(***************************************************************************)
(* Claims about names and numbers.                                         *)
(***************************************************************************)
NoDuplicates ==
    /\ \A m1, m2 \in LiveMenuItems : menuItems[m1].name = menuItems[m2].name => m1 = m2
    /\ \A t1, t2 \in LiveTables : tables[t1].tableNumber = tables[t2].tableNumber => t1 = t2
    /\ \A i1, i2 \in LiveInventory :
          inventory[i1].itemName = inventory[i2].itemName => i1 = i2

Rejected400 ==
    /\ last'.code = 400
    /\ tables' = tables
    /\ menuItems' = menuItems
    /\ inventory' = inventory

\* a create whose name or number a stored record already carries is rejected
DuplicateCreateRejected ==
    /\ \A n \in {1, 2} :
          ( /\ last'.op = "createTable"
            /\ \E t \in LiveTables : tables[t].tableNumber = n
            /\ CreateTable(n, 2) ) => Rejected400
    /\ \A name \in NameInputs :
          ( /\ last'.op = "createMenuItem"
            /\ \E m \in LiveMenuItems : menuItems[m].name = Trim(name)
            /\ CreateMenuItem(name, <<2>>, "undefined") ) => Rejected400
    /\ \A name \in NameInputs :
          ( /\ last'.op = "createInventory"
            /\ \E i \in LiveInventory : inventory[i].itemName = Trim(name)
            /\ CreateInventory(name, <<1>>) ) => Rejected400

\* an update to a name or number that another stored record carries is rejected
DuplicateUpdateRejected ==
    /\ \A id \in TableIdInputs, n \in {<<1>>, <<2>>} :
          ( /\ last'.op = "updateTable"
            /\ TableExists(id)
            /\ \E t \in LiveTables : t # id /\ tables[t].tableNumber = n[1]
            /\ UpdateTable(id, n, << >>, "undefined") ) => Rejected400
    /\ \A id \in MenuItemIdInputs, name \in NameInputs :
          ( /\ last'.op = "updateMenuItem"
            /\ MenuItemExists(id)
            /\ \E m \in LiveMenuItems : m # id /\ menuItems[m].name = Trim(name)
            /\ UpdateMenuItem(id, name, << >>, "undefined") ) => Rejected400
    /\ \A id \in InventoryIdInputs, name \in NameInputs :
          ( /\ last'.op = "updateInventory"
            /\ InventoryExists(id)
            /\ \E i \in LiveInventory : i # id /\ inventory[i].itemName = Trim(name)
            /\ UpdateInventory(id, name, << >>) ) => Rejected400

\* C15: after any sequence of create and update operations run one after another,
\* no two menu items have the same name, no two tables the same tableNumber and
\* no two inventory records the same itemName; a create or update that would
\* introduce a duplicate answers 400 and leaves all records unchanged.
C15_NamesAndNumbersUnique ==
    /\ []NoDuplicates
    /\ [][DuplicateCreateRejected]_vars
    /\ [][DuplicateUpdateRejected]_vars

\* a rename to a name that another menu item carries has just been refused, while
\* two tables, two menu items and two inventory records are stored
C15_Witness ==
    /\ last.op = "updateMenuItem"
    /\ last.code = 400
    /\ Cardinality(LiveTables) = 2
    /\ Cardinality(LiveMenuItems) = 2
    /\ Cardinality(LiveInventory) = 2

(***************************************************************************)
(* More claims about orders and the stock.                                 *)
(***************************************************************************)
\* the step is DELETE /api/orders/id of an existing order
OrderDeleted(id) ==
    /\ last'.op = "deleteOrder"
    /\ OrderExists(id)
    /\ DeleteOrder(id)

\* C16: deleting an order removes only that Order record: every inventory record
\* is unchanged by the deletion, whatever the order's status was.
C16_DeleteOrderKeepsStock ==
    [][\A id \in OrderIdInputs :
          OrderDeleted(id) =>
             /\ last'.code = 200
             /\ ~orders'[id].live
             /\ \A o \in 1..Len(orders) : o # id => orders'[o] = orders[o]
             /\ inventory' = inventory
             /\ menuItems' = menuItems
             /\ tables' = tables]_vars

\* an order has just been deleted and a record of the stock is empty
C16_Witness ==
    /\ last.op = "deleteOrder"
    /\ last.code = 200
    /\ \E o \in 1..Len(orders) : ~orders[o].live
    /\ \E i \in LiveInventory : inventory[i].quantity = 0

(***************************************************************************)
(* Claims about table availability.                                        *)
(***************************************************************************)
\* C17: in every state reached by createReservation, reservation updateStatus and
\* deleteReservation alone (no admin write to a table), a table referenced by a
\* confirmed reservation has isAvailable = false.
C17_ConfirmedTableIsUnavailable ==
    \A r \in LiveReservations :
        (reservations[r].status = "confirmed" /\ TableExists(reservations[r].table))
           => ~tables[reservations[r].table].isAvailable

\* C18: over the lifetime of an order its lines are added back to inventory at
\* most once, so what is restocked for it never exceeds what its placement asked
\* to remove.  Where every record starts from the same quantity and the placement
\* removes exactly what the order asks for, no record ever holds more than that
\* starting quantity.
C18_RestockedAtMostOnce ==
    \A i \in LiveInventory : inventory[i].quantity <= StartingStock[1]

\* the lines of a request, as updateInventoryForOrder receives them
RequestedLines(req) ==
    [i \in 1..Len(req.items) |->
        [name |-> menuItems[req.items[i].menuItemId].name,
         quantity |-> req.items[i].quantity]]

\* the inventory once the first n of these lines are taken out, one after another
RECURSIVE AfterDecrements(_, _, _)
AfterDecrements(inv, lines, n) ==
    IF n = 0
    THEN inv
    ELSE LET before == AfterDecrements(inv, lines, n - 1)
             i == FindInventoryByName(before, lines[n].name)
         IN  IF i = NoId
             THEN before
             ELSE [before EXCEPT ![i].quantity =
                      IF @ - lines[n].quantity < 0 THEN 0 ELSE @ - lines[n].quantity]

\* C19: placeOrder stores the order, status pending, before it touches inventory,
\* and a failure during the inventory adjustment leaves that order stored and
\* unaltered: the lines before the failing one stay decremented, the failing line
\* and the lines after it are not decremented, and the answer is 500.  A
\* placement that stores no order changes no inventory.
C19_FailedAdjustmentKeepsOrder ==
    [][ /\ \A req \in OrderRequests, failAt \in FaultInputs :
              PlaceOrderFault(req, failAt) =>
                  /\ Len(orders') = Len(orders) + 1
                  /\ SubSeq(orders', 1, Len(orders)) = orders
                  /\ orders'[Len(orders')].live
                  /\ orders'[Len(orders')].status = "pending"
                  /\ orders'[Len(orders')].table = req.tableId
                  /\ Len(orders'[Len(orders')].items) = Len(req.items)
                  /\ \A i \in 1..Len(req.items) :
                        /\ orders'[Len(orders')].items[i].menuItem = req.items[i].menuItemId
                        /\ orders'[Len(orders')].items[i].quantity = req.items[i].quantity
                  /\ inventory' = AfterDecrements(inventory, RequestedLines(req), failAt - 1)
                  /\ last'.code = 500
        /\ (last'.op = "placeOrder" /\ orders' = orders) => inventory' = inventory
      ]_vars

\* a two-line order stored after the adjustment failed at its second line: the
\* first line's record is decremented and the second line's record is untouched
C19_Witness ==
    /\ last.op = "placeOrder"
    /\ last.code = 500
    /\ Len(orders) = 1
    /\ orders[1].live
    /\ orders[1].status = "pending"
    /\ Len(orders[1].items) = 2
    /\ orders[1].items[1].menuItem = 1
    /\ orders[1].items[2].menuItem = 2
    /\ Len(inventory) = 2
    /\ inventory[1].quantity = 2 - orders[1].items[1].quantity
    /\ inventory[2].quantity = 2

\* C20: two placements or cancellations that adjust the same inventory record
\* concurrently can interleave their read and their write: each save stores the
\* quantity computed from what its own handler read, whatever the record holds
\* by then, so the final quantity can reflect only one of the two deltas.
C20_SaveWritesFromItsOwnRead ==
    [][ \A c \in Clients :
            (inflight[c].pc = "save" /\ inflight'[c] # inflight[c]) =>
                LET doc == inflight[c].doc
                    n == Head(inflight[c].lines).quantity
                    moved == IF inflight[c].isDecrement
                             THEN doc.quantity - n ELSE doc.quantity + n
                    computed == IF moved < 0 THEN 0 ELSE moved
                IN  /\ computed # doc.quantity =>
                          inventory'[doc.id].quantity = computed
                    /\ \A i \in 1..Len(inventory) :
                          (i # doc.id \/ computed = doc.quantity) =>
                              inventory'[i] = inventory[i]
      ]_vars

\* a lost update: both placements of one unit have answered, no request is in
\* flight, no order was cancelled, and the record, created with two units before
\* either placement, holds one unit instead of none
C20_Witness ==
    /\ \A c \in Clients : inflight[c].pc = "idle"
    /\ Len(orders) = 2
    /\ \A o \in 1..2 :
          /\ orders[o].live
          /\ orders[o].status = "pending"
          /\ Len(orders[o].items) = 1
          /\ orders[o].items[1].menuItem = 1
          /\ orders[o].items[1].quantity = 1
    /\ Len(menuItems) >= 1
    /\ FindInventoryByName(inventory, menuItems[1].name) = 1
    /\ inventory[1].quantity = 1
    /\ last.op = "placeOrder"
    /\ last.code = 201

\* the batches a caller can hand to updateInventoryForOrder: lines naming a menu
\* item or the placeholder of a deleted one
BatchInputs ==
    UNION { [1..n -> [name : ItemNameInputs \cup {"Unknown Item"}, quantity : 1..MaxQuantity]] :
              n \in 0..(MaxLines + 1) }

\* the quantity of the record called name once the first n lines are applied
RECURSIVE QuantityAfter(_, _, _, _, _)
QuantityAfter(quantity, name, lines, n, isDecrement) ==
    IF n = 0
    THEN quantity
    ELSE LET before == QuantityAfter(quantity, name, lines, n - 1, isDecrement)
             moved == IF isDecrement
                      THEN before - lines[n].quantity ELSE before + lines[n].quantity
         IN  IF lines[n].name # name THEN before
             ELSE IF moved < 0 THEN 0 ELSE moved

\* C21: in a batch adjustment a line whose name matches no inventory record is
\* skipped: no record is created or removed, a record no line names keeps its
\* quantity, and every record a line names, before or after the skipped line,
\* receives all of its lines; a placement with such a line still answers 201.
C21_MissingItemIsSkipped ==
    /\ \A batch \in BatchInputs, isDecrement \in BOOLEAN :
          LET out == UpdateInventoryForOrder(inventory, batch, isDecrement)
          IN  /\ Len(out) = Len(inventory)
              /\ \A i \in 1..Len(inventory) :
                    /\ out[i].live = inventory[i].live
                    /\ out[i].itemName = inventory[i].itemName
                    /\ out[i].quantity =
                          IF FindInventoryByName(inventory, inventory[i].itemName) = i
                          THEN QuantityAfter(inventory[i].quantity, inventory[i].itemName,
                                             batch, Len(batch), isDecrement)
                          ELSE inventory[i].quantity
    /\ (last.op = "placeOrder" /\ last.code = 201) =>
          /\ Len(orders) >= 1
          /\ orders[Len(orders)].live

\* an order of Tea, which has no record, then Soup: the placement answered 201,
\* Soup's record lost the second line's quantity and no record was created
C21_Witness ==
    /\ last.op = "placeOrder"
    /\ last.code = 201
    /\ Len(orders) = 1
    /\ Len(orders[1].items) = 2
    /\ orders[1].items[1].menuItem = 2
    /\ orders[1].items[2].menuItem = 1
    /\ Len(menuItems) = 2
    /\ FindInventoryByName(inventory, menuItems[2].name) = NoId
    /\ Len(inventory) = 1
    /\ inventory[1].itemName = menuItems[1].name
    /\ inventory[1].quantity = 2 - orders[1].items[2].quantity

\* what the claim expects of table t's isAvailable when reservation id is given
\* status s
ExpectedAvailability(id, s, t) ==
    IF s = "" \/ ~ReservationExists(id) \/ reservations[id].table # t \/ ~tables[t].live
    THEN tables[t].isAvailable
    ELSE IF s = "confirmed" /\ reservations[id].status # "confirmed"
    THEN FALSE
    ELSE IF /\ s \in {"cancelled", "completed"}
            /\ reservations[id].status # "cancelled"
            /\ reservations[id].status # "completed"
    THEN TRUE
    ELSE tables[t].isAvailable

\* C22: a reservation status change touches isAvailable only on the table attached
\* to that reservation, and only on a transition into confirmed from a status
\* that is not confirmed (FALSE) or into cancelled or completed from a status that
\* is neither (TRUE); every other call leaves every table as it was.
C22_StatusChangeFrame ==
    [][ last'.op = "updateReservationStatus" =>
              \A id \in ReservationIdInputs, s \in ReservationStatusInputs :
                  UpdateReservationStatus(id, s) =>
                      /\ Len(tables') = Len(tables)
                      /\ \A t \in 1..Len(tables) :
                            tables'[t] =
                                [tables[t] EXCEPT !.isAvailable = ExpectedAvailability(id, s, t)]
      ]_vars

\* a confirmation has just made one table unavailable while the other table,
\* attached to a reservation that is not confirmed, is still available
C22_Witness ==
    /\ last.op = "updateReservationStatus"
    /\ last.code = 200
    /\ Len(tables) = 2
    /\ \E r1, r2 \in 1..Len(reservations) :
          /\ reservations[r1].live
          /\ reservations[r2].live
          /\ reservations[r1].status = "confirmed"
          /\ reservations[r2].status # "confirmed"
          /\ reservations[r1].table # reservations[r2].table
          /\ TableExists(reservations[r1].table)
          /\ TableExists(reservations[r2].table)
          /\ ~tables[reservations[r1].table].isAvailable
          /\ tables[reservations[r2].table].isAvailable

\* C23: every reservation createReservation persists is pending and attached to a
\* table that, when it is created, exists, is available and seats the party;
\* creation changes no table; an explicit table that is unavailable or too small
\* is answered 400 and nothing is persisted.
C23_CreatedOnSuitableTable ==
    /\ [](\A req \in ReservationRequests :
            /\ ReservationResponse(req).code = 201 =>
                  /\ TablesToReserve(req) # {}
                  /\ \A t \in TablesToReserve(req) :
                        /\ t \in 1..Len(tables)
                        /\ tables[t].live
                        /\ tables[t].isAvailable
                        /\ tables[t].capacity >= req.numberOfGuests
            /\ ( /\ req.customerName # "" /\ req.phoneNumber # ""
                 /\ req.date # "" /\ req.time # "" /\ req.numberOfGuests # 0
                 /\ req.tableId \in 1..Len(tables)
                 /\ tables[req.tableId].live
                 /\ \/ ~tables[req.tableId].isAvailable
                    \/ tables[req.tableId].capacity < req.numberOfGuests ) =>
                  ReservationResponse(req).code = 400)
    /\ [][ last'.op = "createReservation" =>
             /\ tables' = tables
             /\ last'.code # 201 => reservations' = reservations
             /\ last'.code = 201 =>
                   LET created == reservations'[Len(reservations')]
                   IN  /\ Len(reservations') = Len(reservations) + 1
                       /\ SubSeq(reservations', 1, Len(reservations)) = reservations
                       /\ created.live
                       /\ created.status = "pending"
                       /\ created.table \in 1..Len(tables)
                       /\ tables[created.table].live
                       /\ tables[created.table].isAvailable
                       /\ \E req \in ReservationRequests :
                             /\ ReservationResponse(req).code = 201
                             /\ created.table \in TablesToReserve(req)
                             /\ created.time = req.time
         ]_vars

\* a reservation has just been created by auto-assignment although a smaller
\* available table exists: the table it was given is the larger one
C23_Witness ==
    /\ last.op = "createReservation"
    /\ last.code = 201
    /\ Len(reservations) >= 1
    /\ LET created == reservations[Len(reservations)]
       IN  /\ created.live
           /\ created.status = "pending"
           /\ TableExists(created.table)
           /\ tables[created.table].isAvailable
           /\ \E t \in LiveTables :
                 /\ tables[t].isAvailable
                 /\ tables[t].capacity < tables[created.table].capacity
                 /\ \A r \in 1..Len(reservations) : reservations[r].table # t

\* what is wrong with item i of a request, by the checks of one turn of the loop
ProblemAt(req, i) ==
    IF ~MenuItemExists(req.items[i].menuItemId) THEN "not found"
    ELSE IF ~menuItems[req.items[i].menuItemId].isAvailable THEN "not available"
    ELSE IF req.items[i].quantity <= 0 THEN "quantity"
    ELSE ""

FailingItems(req) == {i \in 1..Len(req.items) : ProblemAt(req, i) # ""}

FirstFailingItem(req) ==
    CHOOSE i \in FailingItems(req) : \A j \in FailingItems(req) : i <= j

RefusalFor(problem) ==
    IF problem = "not found" THEN Response(404, "Menu item not found")
    ELSE IF problem = "not available" THEN Response(400, "Menu item is currently not available")
    ELSE Response(400, "Quantity must be at least 1")

\* C24: a refused placeOrder changes nothing: whether the table id or the items
\* are missing, the table or a menu item does not exist, a menu item is
\* unavailable or a quantity is not positive, in whatever position of the
\* request, no order is created and no inventory quantity moves; the items are
\* examined in request order and the first one that fails decides the answer.
C24_RefusedOrderChangesNothing ==
    /\ [](\A req \in OrderRequests :
            IF req.tableId = NoId \/ req.items = << >>
            THEN PlaceOrderResponse(req).code = 400
            ELSE IF ~TableExists(req.tableId)
            THEN PlaceOrderResponse(req).code = 404
            ELSE IF FailingItems(req) # {}
            THEN PlaceOrderResponse(req) = RefusalFor(ProblemAt(req, FirstFailingItem(req)))
            ELSE PlaceOrderResponse(req).code \notin {400, 404})
    /\ [][ (last'.op = "placeOrder" /\ last'.code \in {400, 404}) =>
              /\ orders' = orders
              /\ inventory' = inventory
         ]_vars

\* an order has just been refused for an unavailable item while an available item
\* with stock exists; the stock of both names is what it was created with and no
\* order is stored
C24_Witness ==
    /\ last.op = "placeOrder"
    /\ last.code = 400
    /\ last.msg = "Menu item is currently not available"
    /\ Len(menuItems) = 2
    /\ menuItems[1].live /\ menuItems[1].isAvailable
    /\ menuItems[2].live /\ ~menuItems[2].isAvailable
    /\ Len(inventory) = 2
    /\ inventory[1].quantity = 2
    /\ inventory[2].quantity = 2
    /\ orders = << >>

\* C25: placeOrder looks at the table only to see that it exists: with a table id
\* and items it answers 404 for a table that does not exist and, when the items
\* pass their checks, 201 for one that does, available or not; it changes no
\* table and no reservation.
C25_OrderIgnoresTableAvailability ==
    /\ [](\A req \in TableOrderRequests :
            (req.tableId # NoId /\ req.items # << >>) =>
               /\ (PlaceOrderResponse(req) = Response(404, "Table not found"))
                     <=> ~(req.tableId \in 1..Len(tables) /\ tables[req.tableId].live)
               /\ ( /\ req.tableId \in 1..Len(tables)
                    /\ tables[req.tableId].live
                    /\ FailingItems(req) = {} ) =>
                     PlaceOrderResponse(req).code = 201)
    /\ [][ last'.op = "placeOrder" =>
              /\ tables' = tables
              /\ reservations' = reservations
         ]_vars

\* an order has just been placed at a table that is not available and that a
\* confirmed reservation holds
C25_Witness ==
    /\ last.op = "placeOrder"
    /\ last.code = 201
    /\ Len(orders) = 1
    /\ orders[1].live
    /\ TableExists(orders[1].table)
    /\ ~tables[orders[1].table].isAvailable
    /\ \E r \in 1..Len(reservations) :
          /\ reservations[r].live
          /\ reservations[r].status = "confirmed"
          /\ reservations[r].table = orders[1].table

\* the record a line names, NoId when there is none
RecordNamed(name) ==
    IF \E i \in LiveInventory : inventory[i].itemName = name
    THEN CHOOSE i \in LiveInventory :
             /\ inventory[i].itemName = name
             /\ \A j \in LiveInventory : inventory[j].itemName = name => i <= j
    ELSE NoId

\* the signals the claim expects from the first n lines of a batch: one for each
\* line that names a record and leaves it at or below its minimum
RECURSIVE ExpectedSignals(_, _, _)
ExpectedSignals(lines, n, isDecrement) ==
    IF n = 0
    THEN << >>
    ELSE LET i == RecordNamed(lines[n].name)
         IN  ExpectedSignals(lines, n - 1, isDecrement) \o
                (IF /\ i # NoId
                    /\ QuantityAfter(inventory[i].quantity, lines[n].name, lines, n, isDecrement)
                          <= inventory[i].minStockLevel
                 THEN <<lines[n].name>>
                 ELSE << >>)

\* the quantity and the minimum a successful update leaves on record id
QuantityPut(id, q) == IF q # << >> THEN q[1] ELSE inventory[id].quantity

MinimumPut(id, m) == IF m # << >> THEN m[1] ELSE inventory[id].minStockLevel

\* C26: a low-stock signal is emitted for a record exactly when, after an
\* adjustment by a placement or a cancellation, or after an inventory update, the
\* quantity it is left with is at or below its minStockLevel; the operation that
\* triggers it completes with its normal result.
C26_LowStockSignalled ==
    /\ [](\A batch \in BatchInputs, isDecrement \in BOOLEAN :
            LowStockAlerts(inventory, batch, isDecrement)
               = ExpectedSignals(batch, Len(batch), isDecrement))
    /\ [](\A id \in InventoryIdInputs, q \in LevelInputs, m \in MinStockInputs :
            UpdateInventoryAlerts(id, "", q, m) =
               IF id \in LiveInventory /\ QuantityPut(id, q) <= MinimumPut(id, m)
               THEN <<inventory[id].itemName>>
               ELSE << >>)
    /\ [][ \A id \in InventoryIdInputs, q \in LevelInputs, m \in MinStockInputs :
              (last'.op = "updateInventory" /\ id \in LiveInventory
                  /\ UpdateInventoryItem(id, "", q, m)) =>
                 /\ last'.code = 200
                 /\ inventory'[id].quantity = QuantityPut(id, q)
                 /\ inventory'[id].minStockLevel = MinimumPut(id, m)
         ]_vars
    /\ [][ \A req \in StatusOrderRequests :
              (last'.op = "placeOrder" /\ TableExists(req.tableId)
                  /\ FailingItems(req) = {}
                  /\ LowStockAlerts(inventory, RequestedLines(req), TRUE) # << >>
                  /\ PlaceOrder(req)) =>
                 /\ last'.code = 201
                 /\ Len(orders') = Len(orders) + 1
         ]_vars

\* an order of one unit has just been placed and answered 201, and it left its
\* record exactly at its minimum stock level of one
C26_Witness ==
    /\ last.op = "placeOrder"
    /\ last.code = 201
    /\ Len(orders) = 1
    /\ orders[1].items[1].quantity = 1
    /\ MenuItemExists(orders[1].items[1].menuItem)
    /\ \E i \in LiveInventory :
          /\ inventory[i].itemName = menuItems[orders[1].items[1].menuItem].name
          /\ inventory[i].quantity = 1
          /\ inventory[i].minStockLevel = 1

====
